---- MODULE Spec2Model ----
(***************************************************************************)
(* A model of the psycopg3 execution core: the cursor (cursor.py), the     *)
(* COPY session (copy.py) and the way concurrent callers share one         *)
(* connection.  Python's None is modelled by the empty sequence where the  *)
(* value is optional (None == << >>, a value v == <<v>>).                  *)
(***************************************************************************)
EXTENDS Integers, Sequences, FiniteSets, TLC

(* ------------------------------ bounds --------------------------------- *)
\* largest ntuples / command_tuples of a result the server returns
MaxRows == 2
\* longest list of results one conn.wait(execute(...)) returns
MaxResults == 2
\* longest params_seq given to executemany
MaxParams == 2
\* most write()/write_row() calls inside one COPY block
MaxWrites == 2
\* most chunks the server delivers in one COPY OUT
MaxChunks == 2
\* most times the caller enters the guarded block of one Copy object
MaxEnters == 2
\* most times a protocol generator yields before it returns
MaxYields == 2
\* number of concurrent callers sharing the connection
NumCallers == 2
\* timeouts of select met during one wait
MaxTicks == 1

VARIABLES
  cur,       \* the cursor object (BaseCursor's fields)
  pc,        \* where the sequential caller is: "idle", or inside an operation
  incoming,  \* the results conn.wait(gen) returned to the operation, in order
  todo,      \* executemany: the params of params_seq not yet iterated over
  first,     \* executemany: the local variable `first`
  lock,      \* connection.lock: 0 when free, else the caller holding it
  wire,      \* calls that reached the pgconn since the last _start_query
  exc,       \* the exception the last finished operation raised, or NoExc
  ret,       \* what the last finished operation returned
  lastop,    \* the last operation started
  fetched,   \* rows handed to the caller since the current result was set
  iter,      \* the iterator over the cursor the caller holds: "none" or "live"
  copy,      \* the Copy object (BaseCopy's fields), and where its block is
  block,     \* what the caller did with the Copy object: rows written by
             \* write_row, calls of write, the error raised in the block
  tstatus,   \* pgconn.transaction_status
  chunks,    \* COPY OUT: chunks the server has delivered so far
  final,     \* the terminal result the server gave to end the COPY, if any
  context,   \* the __context__ of the exception Copy.__exit__ let out, if any
  waiter,    \* wait() and wait_async() driving one protocol generator
  codec,     \* the last call of an array or COPY row codec: input and outcome
  cpc,       \* concurrent callers: position of each caller
  cop,       \* concurrent callers: the operation each caller is in
  gen,       \* concurrent callers: the protocol generator each one is running
  sess,      \* concurrent callers: the COPY session each one has open
  left,      \* concurrent callers: executemany iterations still to run
  connection \* the connection of the cursor: closed, and pgconn.status

curVars == <<cur, pc, incoming, todo, first, wire, exc, ret, lastop, fetched, iter>>
copyVars == <<copy, block, tstatus, chunks, final, context>>
connVars == <<cpc, cop, gen, sess, left>>
waitVars == <<waiter>>
codecVars == <<codec>>
pgVars == <<connection>>
vars == <<curVars, copyVars, connVars, lock, waitVars, codecVars, pgVars>>

(* ------------------------------ results -------------------------------- *)
None == << >>
Some(v) == <<v>>

\* pq.ExecStatus, as used by cursor.py
StatusOk == {"TUPLES_OK", "COMMAND_OK", "EMPTY_QUERY"}
StatusCopy == {"COPY_IN", "COPY_OUT", "COPY_BOTH"}

PGresult(st, nt, ct, fmt) ==
  [status |-> st, ntuples |-> nt, command_tuples |-> ct, binary_tuples |-> fmt]

\* the cursor has no result (self.pgresult is None)
NoResult == PGresult("None", 0, None, "TEXT")

\* the results a server can answer a statement with
TuplesResults == {PGresult("TUPLES_OK", n, Some(n), "TEXT") : n \in 0..MaxRows}
CommandResults ==
  {PGresult("COMMAND_OK", 0, ct, "TEXT") : ct \in {None} \cup {Some(n) : n \in 1..MaxRows}}
CopyResults ==
  {PGresult(st, 0, None, fmt) : st \in {"COPY_IN", "COPY_OUT"}, fmt \in {"TEXT", "BINARY"}}
ErrorResults ==
  {PGresult(st, 0, None, "TEXT") : st \in {"FATAL_ERROR", "BAD_RESPONSE"}}
ExecResults ==
  TuplesResults \cup CommandResults \cup ErrorResults
    \cup {PGresult(st, 0, None, "TEXT") : st \in {"EMPTY_QUERY", "COPY_IN", "COPY_OUT", "COPY_BOTH"}}
CopyAnswers ==
  CopyResults \cup ErrorResults
    \cup {PGresult("TUPLES_OK", 1, Some(1), "TEXT"), PGresult("COMMAND_OK", 0, None, "TEXT"),
          PGresult("COPY_BOTH", 0, None, "TEXT")}

(* ----------------------------- exceptions ------------------------------ *)
Exc(type, msg) == [type |-> type, msg |-> msg]
NoExc == Exc("None", << >>)

\* one call on the pgconn
Call(name, params, data, err) == [call |-> name, params |-> params, data |-> data, err |-> err]
Send(name, params) == Call(name, params, << >>, None)

(* ------------------------------ cursor --------------------------------- *)
\* BaseCursor.__init__
NewCursor ==
  [closed |-> FALSE, results |-> << >>, pgresult |-> NoResult, pos |-> 0,
   iresult |-> 0, rowcount |-> -1, tresult |-> NoResult, arraysize |-> 1,
   format |-> "TEXT", query |-> None, params |-> None]

\* a pgresult setter that leaves the transformer alone once it has a result
pgresult_setter_no_rebind(c, result) ==
  [c EXCEPT !.pgresult = result,
            !.tresult = IF result # NoResult /\ @ = NoResult THEN result ELSE @]

\* the pgresult setter: the transformer follows the cursor, except for None
pgresult_setter(c, result) ==
  [c EXCEPT !.pgresult = result,
            !.tresult = IF result # NoResult THEN result ELSE @]

\* _reset that forgets to reset the rowcount
_reset_keeps_rowcount(c) ==
  [pgresult_setter(c, NoResult) EXCEPT !.results = << >>, !.pos = 0, !.iresult = 0,
                                       !.query = None, !.params = None]

_reset(c) ==
  [pgresult_setter(c, NoResult) EXCEPT !.results = << >>, !.pos = 0, !.iresult = 0,
                                       !.rowcount = -1, !.query = None, !.params = None]

\* the connection of the cursor, open and in status OK
OpenConnection == [closed |-> FALSE, status |-> "OK"]

\* checks of _start_query that look at the cursor only
_start_query_check_cursor_only(c) ==
  IF c.closed THEN Exc("InterfaceError", <<"the cursor is closed">>) ELSE NoExc

\* the checks of _start_query: the exception it raises, or NoExc
_start_query_check(c) ==
  IF c.closed THEN Exc("InterfaceError", <<"the cursor is closed">>)
  ELSE IF connection.closed THEN Exc("InterfaceError", <<"the connection is closed">>)
  ELSE IF connection.status # "OK"
  THEN Exc("InterfaceError", <<"cannot execute operations: the connection is in status ",
                               connection.status>>)
  ELSE NoExc

\* a _start_query without the reset
_start_query_no_reset(c) == [c EXCEPT !.tresult = NoResult]

\* the rest of _start_query: reset, and a new Transformer (holding no result)
_start_query(c) == [_reset(c) EXCEPT !.tresult = NoResult]

\* the outcome of a method: the cursor it leaves, and what it raises
Returns(c) == [cur |-> c, exc |-> NoExc]
Raises(c, type, msg) == [cur |-> c, exc |-> Exc(type, msg)]

\* rowcount after a result with command_tuples nrows is accepted
AddRowcount(rowcount, nrows) ==
  IF nrows # None
  THEN IF rowcount < 0 THEN nrows[1] ELSE rowcount + nrows[1]
  ELSE rowcount

\* _execute_results that adds up the command_tuples of every result
RECURSIVE AddAll(_, _)
AddAll(rowcount, res) ==
  IF res = << >> THEN rowcount
  ELSE AddAll(AddRowcount(rowcount, Head(res).command_tuples), Tail(res))

_execute_results_summing(c, res) ==
  IF res = << >> THEN Raises(c, "InternalError", <<"got no result from the query">>)
  ELSE IF {res[i].status : i \in DOMAIN res} \ StatusOk = {}
  THEN Returns([pgresult_setter([c EXCEPT !.results = res], res[1])
                  EXCEPT !.rowcount = AddAll(@, res)])
  ELSE IF res[Len(res)].status = "FATAL_ERROR"
  THEN Raises(c, "ServerError", <<"error_from_result">>)
  ELSE IF ({res[i].status : i \in DOMAIN res} \ StatusOk) \cap StatusCopy # {}
  THEN Raises(c, "ProgrammingError", <<"COPY cannot be used with execute()">>)
  ELSE Raises(c, "InternalError", <<"got unexpected status from query">>)

\* _execute_results that looks for a COPY status before the fatal error
_execute_results_copy_first(c, res) ==
  IF res = << >> THEN Raises(c, "InternalError", <<"got no result from the query">>)
  ELSE IF {res[i].status : i \in DOMAIN res} \ StatusOk = {}
  THEN Returns([pgresult_setter([c EXCEPT !.results = res], res[1])
                  EXCEPT !.rowcount = AddRowcount(@, res[1].command_tuples)])
  ELSE IF ({res[i].status : i \in DOMAIN res} \ StatusOk) \cap StatusCopy # {}
  THEN Raises(c, "ProgrammingError", <<"COPY cannot be used with execute()">>)
  ELSE IF res[Len(res)].status = "FATAL_ERROR"
  THEN Raises(c, "ServerError", <<"error_from_result">>)
  ELSE Raises(c, "InternalError", <<"got unexpected status from query">>)

_execute_results(c, res) ==
  IF res = << >> THEN Raises(c, "InternalError", <<"got no result from the query">>)
  ELSE LET statuses == {res[i].status : i \in DOMAIN res}
           badstats == statuses \ StatusOk
       IN  IF badstats = {}
           THEN LET c1 == pgresult_setter([c EXCEPT !.results = res], res[1])
                IN  Returns([c1 EXCEPT !.rowcount = AddRowcount(@, c1.pgresult.command_tuples)])
           ELSE IF res[Len(res)].status = "FATAL_ERROR"
           THEN Raises(c, "ServerError", <<"error_from_result">>)
           ELSE IF badstats \cap StatusCopy # {}
           THEN Raises(c, "ProgrammingError", <<"COPY cannot be used with execute()">>)
           ELSE Raises(c, "InternalError", <<"got unexpected status from query">>)

_check_result(c) ==
  IF c.pgresult = NoResult THEN Exc("ProgrammingError", <<"no result available">>)
  ELSE IF c.pgresult.status # "TUPLES_OK"
  THEN Exc("ProgrammingError", <<"the last operation didn't produce a result">>)
  ELSE NoExc

\* Transformer.load_row: row i of the transformer's result, None past the end.
\* A row is named by its index in the result.
load_row(result, i) == IF i < result.ntuples THEN Some(i) ELSE None

\* the outcome of a fetch: the cursor, the value returned, the exception
Fetched(c, rv, e) == [cur |-> c, rv |-> rv, exc |-> e]

\* fetchone that does not advance the position
fetchone_no_advance(c) ==
  IF _check_result(c) # NoExc THEN Fetched(c, None, _check_result(c))
  ELSE Fetched(c, load_row(c.tresult, c.pos), NoExc)

fetchone(c) ==
  IF _check_result(c) # NoExc THEN Fetched(c, None, _check_result(c))
  ELSE LET rv == load_row(c.tresult, c.pos)
       IN  Fetched(IF rv # None THEN [c EXCEPT !.pos = @ + 1] ELSE c, rv, NoExc)

\* the loop of fetchmany: `n` more rounds from position pos, rv collected so far
RECURSIVE fetchmany_loop(_, _, _, _)
fetchmany_loop(result, pos, n, rv) ==
  IF n <= 0 THEN [pos |-> pos, rv |-> rv]
  ELSE LET row == load_row(result, pos)
       IN  IF row = None THEN [pos |-> pos, rv |-> rv]
           ELSE fetchmany_loop(result, pos + 1, n - 1, rv \o row)

fetchmany(c, size) ==
  IF _check_result(c) # NoExc THEN Fetched(c, << >>, _check_result(c))
  ELSE LET sz == IF size = 0 THEN c.arraysize ELSE size
           l == fetchmany_loop(c.tresult, c.pos, sz, << >>)
       IN  Fetched([c EXCEPT !.pos = l.pos], l.rv, NoExc)

\* one round of the loop of __iter__: the row it yields (None: it stops)
iter_next(c) ==
  LET row == load_row(c.tresult, c.pos)
  IN  Fetched(IF row # None THEN [c EXCEPT !.pos = @ + 1] ELSE c, row, NoExc)

\* fetchall is list(self): __iter__ run until it stops
RECURSIVE iter_all(_, _)
iter_all(c, rv) ==
  LET n == iter_next(c)
  IN  IF n.rv = None THEN Fetched(c, rv, NoExc) ELSE iter_all(n.cur, rv \o n.rv)

fetchall(c) ==
  IF _check_result(c) # NoExc THEN Fetched(c, << >>, _check_result(c))
  ELSE iter_all(c, << >>)

\* nextset that keeps the row position
nextset_keeps_pos(c) ==
  LET c1 == [c EXCEPT !.iresult = @ + 1]
  IN  IF c1.iresult < Len(c1.results)
      THEN LET c2 == pgresult_setter(c1, c1.results[c1.iresult + 1])
               nrows == c2.pgresult.command_tuples
           IN  Fetched([c2 EXCEPT !.rowcount = IF nrows # None THEN nrows[1] ELSE -1],
                       Some(TRUE), NoExc)
      ELSE Fetched(c1, None, NoExc)

\* nextset that keeps the rowcount
nextset_keeps_rowcount(c) ==
  LET c1 == [c EXCEPT !.iresult = @ + 1]
  IN  IF c1.iresult < Len(c1.results)
      THEN Fetched([pgresult_setter(c1, c1.results[c1.iresult + 1]) EXCEPT !.pos = 0],
                   Some(TRUE), NoExc)
      ELSE Fetched(c1, None, NoExc)

\* nextset: the cursor it leaves and whether it returned True
nextset(c) ==
  LET c1 == [c EXCEPT !.iresult = @ + 1]
  IN  IF c1.iresult < Len(c1.results)
      THEN LET c2 == [pgresult_setter(c1, c1.results[c1.iresult + 1]) EXCEPT !.pos = 0]
               nrows == c2.pgresult.command_tuples
           IN  Fetched([c2 EXCEPT !.rowcount = IF nrows # None THEN nrows[1] ELSE -1],
                       Some(TRUE), NoExc)
      ELSE Fetched(c1, None, NoExc)

close(c) == _reset([c EXCEPT !.closed = TRUE])

\* PostgresQuery.convert(query, params): the converted query, and the
\* converted parameters, None when the query has none
PostgresQuery(params) ==
  [query |-> Some("query"), params |-> IF params = 0 THEN None ELSE Some(params)]

\* what a send leaves: the cursor, and the call made on the pgconn
Sent(c, call) == [cur |-> c, call |-> call]

\* _execute_send that uses send_query whenever the query has no parameters
_execute_send_by_params(c, params, no_pqexec) ==
  LET pgq == PostgresQuery(params)
  IN  IF pgq.params # None
      THEN Sent([c EXCEPT !.query = pgq.query, !.params = pgq.params],
                Send("send_query_params", params))
      ELSE Sent([c EXCEPT !.query = pgq.query, !.params = None], Send("send_query", 0))

\* _execute_send: _query and _params of the cursor, and the call it makes on
\* the pgconn
_execute_send(c, params, no_pqexec) ==
  LET pgq == PostgresQuery(params)
  IN  IF pgq.params # None \/ no_pqexec \/ c.format = "BINARY"
      THEN Sent([c EXCEPT !.query = pgq.query, !.params = pgq.params],
                Send("send_query_params", params))
      ELSE Sent([c EXCEPT !.query = pgq.query, !.params = None], Send("send_query", 0))

\* _send_prepare and _send_query_prepared: the calls they make on the pgconn
_send_prepare(params) == Send("send_prepare", params)
_send_query_prepared(params) == Send("send_query_prepared", params)

\* pgconn.transaction_status once the server has answered with `result`
TransactionStatus(result) ==
  IF result.status = "FATAL_ERROR" THEN "INERROR"
  ELSE IF result.status \in StatusCopy THEN "ACTIVE"
  ELSE "INTRANS"

(* --------------------- the sequential caller (caller 1) ---------------- *)
\* the answers the server gives to a prepare
PrepareAnswers ==
  {PGresult("COMMAND_OK", 0, None, "TEXT"), PGresult("FATAL_ERROR", 0, None, "TEXT")}

\* a lock that is taken whether or not it is free
LockIgnored == TRUE

\* the lock is taken by `with self._conn.lock` when it is free
CanAcquire == lock = 0

\* an operation that raised before or without touching the cursor
Refused(op, e) ==
  /\ exc' = e
  /\ ret' = None
  /\ lastop' = op
  /\ UNCHANGED <<cur, pc, incoming, todo, first, wire, fetched, iter, lock>>

\* execute(), up to the wait: lock, _start_query, _execute_send, gen
ExecuteBegin(params) ==
  /\ pc = "idle"
  /\ CanAcquire
  /\ IF _start_query_check(cur) # NoExc
     THEN Refused("execute", _start_query_check(cur)) /\ UNCHANGED tstatus
     ELSE /\ LET s == _execute_send(_start_query(cur), params, FALSE)
              IN  cur' = s.cur /\ wire' = <<s.call>>
          /\ pc' = "execute"
          /\ lock' = 1
          /\ incoming' = << >>
          /\ exc' = NoExc
          /\ ret' = None
          /\ lastop' = "execute"
          /\ fetched' = << >>
          /\ iter' = "none"
          /\ tstatus' = "ACTIVE"
          /\ UNCHANGED <<todo, first>>
  /\ UNCHANGED <<copy, block, chunks, final, context, connVars, waitVars, codecVars, pgVars>>

\* conn.wait(gen): the generator collects one more result from the pgconn
Receive(r) ==
  /\ pc \in {"execute", "copy"}
  /\ Len(incoming) < MaxResults
  /\ incoming' = Append(incoming, r)
  /\ UNCHANGED <<cur, pc, todo, first, wire, exc, ret, lastop, fetched, iter, lock>>
  /\ UNCHANGED <<copyVars, connVars, waitVars, codecVars, pgVars>>

\* execute(), from the return of the wait: _execute_results, lock released
ExecuteEnd ==
  /\ pc = "execute"
  /\ LET o == _execute_results(cur, incoming)
     IN  /\ cur' = o.cur
         /\ exc' = o.exc
  /\ pc' = "idle"
  /\ lock' = 0
  /\ tstatus' = IF incoming = << >> THEN "INTRANS"
                ELSE TransactionStatus(incoming[Len(incoming)])
  /\ UNCHANGED <<incoming, todo, first, wire, ret, lastop, fetched, iter>>
  /\ UNCHANGED <<copy, block, chunks, final, context, connVars, waitVars, codecVars, pgVars>>

\* executemany(), up to the loop
ExecutemanyBegin(n) ==
  /\ pc = "idle"
  /\ CanAcquire
  /\ IF _start_query_check(cur) # NoExc
     THEN Refused("executemany", _start_query_check(cur))
     ELSE /\ cur' = _start_query(cur)
          /\ wire' = << >>
          /\ pc' = "executemany"
          /\ lock' = 1
          /\ todo' = [i \in 1..n |-> i]
          /\ first' = TRUE
          /\ exc' = NoExc
          /\ ret' = None
          /\ lastop' = "executemany"
          /\ fetched' = << >>
          /\ iter' = "none"
          /\ incoming' = << >>
  /\ UNCHANGED <<copyVars, connVars, waitVars, codecVars, pgVars>>

\* an exception that leaves the `with` block without releasing the lock
Abort_keeps_lock(e) ==
  /\ exc' = e
  /\ pc' = "idle"
  /\ lock' = lock
  /\ todo' = << >>

\* an operation in progress ends by raising e
Abort(e) ==
  /\ exc' = e
  /\ pc' = "idle"
  /\ lock' = 0
  /\ todo' = << >>

\* a send_* call or conn.wait(gen) raises e inside the `with` block of
\* execute, executemany or _start_copy
WireRaises(e) ==
  /\ pc \in {"execute", "executemany", "copy"}
  /\ Abort(e)
  /\ UNCHANGED <<cur, incoming, first, wire, ret, lastop, fetched, iter>>
  /\ UNCHANGED <<copyVars, connVars, waitVars, codecVars, pgVars>>

\* one round of the loop of executemany: prep answers the prepare (if it is
\* sent), result answers the send_query_prepared
ExecutemanyIter(prep, result) ==
  /\ pc = "executemany"
  /\ todo # << >>
  /\ LET params == Head(todo)
         pgq == PostgresQuery(params)
         wire1 == IF first THEN Append(wire, _send_prepare(params)) ELSE wire
         wire2 == Append(wire1, _send_query_prepared(params))
         cur1 == IF first THEN [cur EXCEPT !.query = pgq.query] ELSE cur
         cur2 == [cur1 EXCEPT !.params = pgq.params]
         o == _execute_results(cur2, <<result>>)
     IN  IF first /\ prep.status = "FATAL_ERROR"
         THEN /\ Abort(Exc("ServerError", <<"error_from_result">>))
              /\ wire' = wire1
              /\ cur' = cur1
              /\ tstatus' = TransactionStatus(prep)
              /\ UNCHANGED incoming
         ELSE /\ wire' = wire2
              /\ incoming' = Append(incoming, result)
              /\ cur' = o.cur
              /\ tstatus' = TransactionStatus(result)
              /\ IF o.exc # NoExc
                 THEN Abort(o.exc)
                 ELSE /\ todo' = Tail(todo)
                      /\ UNCHANGED <<pc, lock, exc>>
  /\ UNCHANGED <<first, ret, lastop, fetched, iter>>
  /\ UNCHANGED <<copy, block, chunks, final, context, connVars, waitVars, codecVars, pgVars>>

\* executemany(): params_seq is exhausted, the lock is released
ExecutemanyEnd ==
  /\ pc = "executemany"
  /\ todo = << >>
  /\ pc' = "idle"
  /\ lock' = 0
  /\ UNCHANGED <<cur, incoming, todo, first, wire, exc, ret, lastop, fetched, iter>>
  /\ UNCHANGED <<copyVars, connVars, waitVars, codecVars, pgVars>>

\* a fetch operation with outcome o
FetchStep(op, o) ==
  /\ pc = "idle"
  /\ cur' = o.cur
  /\ exc' = o.exc
  /\ ret' = o.rv
  /\ lastop' = op
  /\ fetched' = IF o.exc = NoExc THEN fetched \o o.rv ELSE fetched
  /\ UNCHANGED <<pc, incoming, todo, first, wire, iter, lock>>
  /\ UNCHANGED <<copyVars, connVars, waitVars, codecVars, pgVars>>

Fetchone == FetchStep("fetchone", fetchone(cur))

Fetchmany(size) == FetchStep("fetchmany", fetchmany(cur, size))

Fetchall == FetchStep("fetchall", fetchall(cur))

\* next() on an iterator over the cursor: the first one runs _check_result,
\* each one runs one round of the loop of __iter__
Iterate ==
  /\ pc = "idle"
  /\ lastop' = "iter"
  /\ IF iter = "none" /\ _check_result(cur) # NoExc
     THEN /\ exc' = _check_result(cur)
          /\ ret' = None
          /\ UNCHANGED <<cur, fetched, iter>>
     ELSE LET o == iter_next(cur)
          IN  /\ cur' = o.cur
              /\ exc' = NoExc
              /\ ret' = o.rv
              /\ fetched' = fetched \o o.rv
              /\ iter' = IF o.rv = None THEN "none" ELSE "live"
  /\ UNCHANGED <<pc, incoming, todo, first, wire, lock>>
  /\ UNCHANGED <<copyVars, connVars, waitVars, codecVars, pgVars>>

Nextset ==
  /\ pc = "idle"
  /\ cur.iresult <= MaxResults
  /\ LET o == nextset(cur)
     IN  /\ cur' = o.cur
         /\ ret' = o.rv
         /\ exc' = NoExc
         /\ fetched' = IF o.rv # None THEN << >> ELSE fetched
  /\ lastop' = "nextset"
  /\ UNCHANGED <<pc, incoming, todo, first, wire, iter, lock>>
  /\ UNCHANGED <<copyVars, connVars, waitVars, codecVars, pgVars>>

Close ==
  /\ pc = "idle"
  /\ cur' = close(cur)
  /\ exc' = NoExc
  /\ ret' = None
  /\ lastop' = "close"
  /\ fetched' = << >>
  /\ UNCHANGED <<pc, incoming, todo, first, wire, iter, lock>>
  /\ UNCHANGED <<copyVars, connVars, waitVars, codecVars, pgVars>>

\* connection.cursor(format): the caller goes on with a new cursor
NewCursorOf(format) ==
  /\ pc = "idle"
  /\ copy.state # "entered"
  /\ cur' = [NewCursor EXCEPT !.format = format]
  /\ exc' = NoExc
  /\ ret' = None
  /\ lastop' = "cursor"
  /\ fetched' = << >>
  /\ iter' = "none"
  /\ UNCHANGED <<pc, incoming, todo, first, wire, lock>>
  /\ UNCHANGED <<copyVars, connVars, waitVars, codecVars, pgVars>>

\* connection.close()
ConnectionClose ==
  /\ pc = "idle"
  /\ ~connection.closed
  /\ connection' = [closed |-> TRUE, status |-> "BAD"]
  /\ UNCHANGED <<curVars, copyVars, connVars, lock, waitVars, codecVars>>

\* the server or the network drops the connection between two operations
ConnectionLost ==
  /\ pc = "idle"
  /\ connection.status = "OK"
  /\ connection' = [connection EXCEPT !.status = "BAD"]
  /\ UNCHANGED <<curVars, copyVars, connVars, lock, waitVars, codecVars>>

(* ------------------------------- COPY ---------------------------------- *)
\* no Copy object exists
NoCopy ==
  [state |-> "none", pgresult |-> NoResult, format |-> "TEXT", first_row |-> TRUE,
   finished |-> FALSE, nenter |-> 0]

\* BaseCopy.__init__, on the result the transformer holds
NewCopy(c) ==
  [state |-> "created", pgresult |-> c.tresult, format |-> c.tresult.binary_tuples,
   first_row |-> TRUE, finished |-> FALSE, nenter |-> 0]

NewBlock == [rows |-> << >>, writes |-> 0, exc |-> NoExc]

\* big-endian struct.pack("!h", n) and struct.pack("!i", n), n >= 0
Int2(n) == <<(n \div 256) % 256, n % 256>>
Int4(n) == <<(n \div 16777216) % 256, (n \div 65536) % 256, (n \div 256) % 256, n % 256>>

\* b"PGCOPY\n\xff\r\n\0" + flags + extension length
Prologue == <<80, 71, 67, 79, 80, 89, 10, 255, 13, 10, 0, 0, 0, 0, 0, 0, 0, 0, 0>>
Trailer == <<255, 255>>

RECURSIVE Flatten(_)
Flatten(seqs) == IF seqs = << >> THEN << >> ELSE Head(seqs) \o Flatten(Tail(seqs))

\* one field of a binary row: length and bytes, or -1 for None
BinaryField(item) ==
  IF item # None THEN Int4(Len(item[1])) \o item[1] ELSE <<255, 255, 255, 255>>

\* the bytes of a binary row after the prologue, if any
BinaryRow(row) == Int2(Len(row)) \o Flatten([i \in DOMAIN row |-> BinaryField(row[i])])

\* _format_row_binary that puts the prologue before every row
_format_row_binary_always(cp, row) ==
  [copy |-> [cp EXCEPT !.first_row = FALSE], data |-> Prologue \o BinaryRow(row)]

\* _format_row_binary: the data to send, and the Copy object it leaves
_format_row_binary(cp, row) ==
  [copy |-> [cp EXCEPT !.first_row = FALSE],
   data |-> (IF cp.first_row THEN Prologue ELSE << >>) \o BinaryRow(row)]

\* an escape that leaves the backslash alone
Escape_not_backslash(b) ==
  CASE b = 8 -> <<92, 98>>
    [] b = 9 -> <<92, 116>>
    [] b = 10 -> <<92, 110>>
    [] b = 11 -> <<92, 118>>
    [] b = 12 -> <<92, 102>>
    [] b = 13 -> <<92, 114>>
    [] OTHER -> <<b>>

\* _bsrepl_sub on one byte: \b \t \n \v \f \r and the backslash are escaped
Escape(b) ==
  CASE b = 8 -> <<92, 98>>
    [] b = 9 -> <<92, 116>>
    [] b = 10 -> <<92, 110>>
    [] b = 11 -> <<92, 118>>
    [] b = 12 -> <<92, 102>>
    [] b = 13 -> <<92, 114>>
    [] b = 92 -> <<92, 92>>
    [] OTHER -> <<b>>

TextField(item) ==
  IF item # None THEN Flatten([i \in DOMAIN item[1] |-> Escape(item[1][i])]) ELSE <<92, 78>>

\* b"\t".join(...)
RECURSIVE JoinTab(_)
JoinTab(fields) ==
  IF fields = << >> THEN << >>
  ELSE IF Len(fields) = 1 THEN fields[1]
  ELSE fields[1] \o <<9>> \o JoinTab(Tail(fields))

_format_row_text(cp, row) ==
  [copy |-> cp, data |-> JoinTab([i \in DOMAIN row |-> TextField(row[i])]) \o <<10>>]

\* self._format_copy_row, chosen by BaseCopy.__init__
_format_copy_row(cp, row) ==
  IF cp.format = "TEXT" THEN _format_row_text(cp, row) ELSE _format_row_binary(cp, row)

\* what the caller passes to write(): bytes, a str, or something else
Bytes(b) == [type |-> "bytes", value |-> b]
Str(codes) == [type |-> "str", value |-> codes]
Other == [type |-> "int", value |-> << >>]

\* str.encode under the client encoding (utf-8), for code points below 2048
EncodeChar(cp) == IF cp < 128 THEN <<cp>> ELSE <<192 + (cp \div 64), 128 + (cp % 64)>>
Encode(codes) == Flatten([i \in DOMAIN codes |-> EncodeChar(codes[i])])

\* _ensure_bytes that encodes a str whatever the format
_ensure_bytes_any_format(cp, data) ==
  IF data.type = "bytes" THEN [exc |-> NoExc, bytes |-> data.value]
  ELSE IF data.type = "str" THEN [exc |-> NoExc, bytes |-> Encode(data.value)]
  ELSE [exc |-> Exc("TypeError", <<"can't write ", data.type>>), bytes |-> << >>]

\* _ensure_bytes: the bytes, or the TypeError raised
_ensure_bytes(cp, data) ==
  IF data.type = "bytes" THEN [exc |-> NoExc, bytes |-> data.value]
  ELSE IF data.type = "str"
  THEN IF cp.pgresult.binary_tuples = "BINARY"
       THEN [exc |-> Exc("TypeError", <<"cannot copy str data in binary mode: use bytes instead">>),
             bytes |-> << >>]
       ELSE [exc |-> NoExc, bytes |-> Encode(data.value)]
  ELSE [exc |-> Exc("TypeError", <<"can't write ", data.type>>), bytes |-> << >>]

\* the message __exit__ hands to _finish for the exception exc_type(exc_val)
ErrorMessage(e) == <<"error from Python: ", e.type, " - ">> \o e.msg

\* _check_copy_results that lets every status but FatalError through
_check_copy_results_lenient(results) ==
  IF Len(results) # 1 THEN Exc("InternalError", <<"expected 1 result from copy">>)
  ELSE IF results[1].status = "FATAL_ERROR" THEN Exc("ServerError", <<"error_from_result">>)
  ELSE NoExc

\* _check_copy_results: the exception it raises, or NoExc
_check_copy_results(results) ==
  IF Len(results) # 1 THEN Exc("InternalError", <<"expected 1 result from copy">>)
  ELSE IF results[1].status \in {"COPY_IN", "COPY_OUT"} THEN NoExc
  ELSE IF results[1].status = "FATAL_ERROR" THEN Exc("ServerError", <<"error_from_result">>)
  ELSE Exc("ProgrammingError", <<"copy() should be used only with COPY">>)

\* the terminal results the server gives at the end of a COPY it accepts or
\* refuses
TerminalResults == CommandResults \cup {PGresult("FATAL_ERROR", 0, None, "TEXT")}

\* copy_end: the server's answer to put_copy_end(berr); an error message makes
\* the server refuse the COPY
CopyEndAnswers(berr) ==
  IF berr # None THEN {PGresult("FATAL_ERROR", 0, None, "TEXT")} ELSE TerminalResults

\* the error the generators raise for a terminal result that is not COMMAND_OK
TerminalError(berr) ==
  IF berr # None THEN Exc("QueryCanceled", <<"COPY from stdin failed: ">> \o berr[1])
  ELSE Exc("ServerError", <<"error_from_result">>)

\* Cursor._start_copy, up to the wait; the caller opens a COPY once the
\* block of the previous one is left, and drops the previous Copy object
StartCopyBegin ==
  /\ pc = "idle"
  /\ copy.state \in {"none", "exited"}
  /\ CanAcquire
  /\ IF _start_query_check(cur) # NoExc
     THEN Refused("copy", _start_query_check(cur)) /\ UNCHANGED copyVars
     ELSE /\ LET s == _execute_send(_start_query(cur), 0, TRUE)
              IN  cur' = s.cur /\ wire' = <<s.call>>
          /\ pc' = "copy"
          /\ lock' = 1
          /\ incoming' = << >>
          /\ exc' = NoExc
          /\ ret' = None
          /\ lastop' = "copy"
          /\ fetched' = << >>
          /\ iter' = "none"
          /\ tstatus' = "ACTIVE"
          /\ copy' = NoCopy
          /\ block' = NewBlock
          /\ chunks' = 0
          /\ final' = NoResult
          /\ context' = NoExc
          /\ UNCHANGED <<todo, first>>
  /\ UNCHANGED <<connVars, waitVars, codecVars, pgVars>>

\* Cursor._start_copy, from the return of the wait, and the __enter__ of the
\* with statement of Cursor.copy
StartCopyEnd ==
  /\ pc = "copy"
  /\ pc' = "idle"
  /\ lock' = 0
  /\ exc' = _check_copy_results(incoming)
  /\ tstatus' = IF incoming = << >> THEN tstatus
                ELSE TransactionStatus(incoming[Len(incoming)])
  /\ IF _check_copy_results(incoming) = NoExc
     THEN /\ cur' = pgresult_setter(cur, incoming[1])
          /\ copy' = [NewCopy(cur') EXCEPT !.state = "entered", !.nenter = 1]
     ELSE UNCHANGED <<cur, copy>>
  /\ UNCHANGED <<block, chunks, final, context>>
  /\ UNCHANGED <<incoming, todo, first, wire, ret, lastop, fetched, iter>>
  /\ UNCHANGED <<connVars, waitVars, codecVars, pgVars>>

InBlock == pc = "idle" /\ copy.state = "entered" /\ block.exc = NoExc

\* Copy.write called in the block; a TypeError leaves the block
CopyWrite(buffer) ==
  /\ InBlock
  /\ copy.pgresult.status = "COPY_IN"
  /\ Len(block.rows) + block.writes < MaxWrites
  /\ LET b == _ensure_bytes(copy, buffer)
     IN  IF b.exc # NoExc
         THEN /\ block' = [block EXCEPT !.exc = b.exc]
              /\ UNCHANGED wire
         ELSE /\ block' = [block EXCEPT !.writes = @ + 1]
              /\ wire' = Append(wire, Call("copy_to", 0, b.bytes, None))
  /\ lastop' = "write"
  /\ UNCHANGED <<cur, pc, incoming, todo, first, exc, ret, fetched, iter, lock>>
  /\ UNCHANGED <<copy, tstatus, chunks, final, context, connVars, waitVars, codecVars, pgVars>>

\* Copy.write_row called in the block, with a row of adapted items
CopyWriteRow(row) ==
  /\ InBlock
  /\ copy.pgresult.status = "COPY_IN"
  /\ Len(block.rows) + block.writes < MaxWrites
  /\ LET f == _format_copy_row(copy, row)
     IN  /\ copy' = f.copy
         /\ wire' = Append(wire, Call("copy_to", 0, f.data, None))
  /\ block' = [block EXCEPT !.rows = Append(@, row)]
  /\ lastop' = "write_row"
  /\ UNCHANGED <<cur, pc, incoming, todo, first, exc, ret, fetched, iter, lock>>
  /\ UNCHANGED <<tstatus, chunks, final, context, connVars, waitVars, codecVars, pgVars>>

\* the caller's code raises e in the block
CopyRaise(e) ==
  /\ InBlock
  /\ block' = [block EXCEPT !.exc = e]
  /\ lastop' = "raise"
  /\ UNCHANGED <<cur, pc, incoming, todo, first, wire, exc, ret, fetched, iter, lock>>
  /\ UNCHANGED <<copy, tstatus, chunks, final, context, connVars, waitVars, codecVars, pgVars>>

\* what Copy.read works on: the Copy object, the cursor, the wire log, the
\* chunks the server has delivered, the transaction status, the terminal result
ReadState(cp, c, w, n, ts, fin) ==
  [copy |-> cp, cur |-> c, wire |-> w, chunks |-> n, tstatus |-> ts, final |-> fin]

\* Copy.read that never marks the Copy finished
read_never_finished(s, answer) ==
  LET w == Append(s.wire, Call("copy_from", 0, << >>, None))
  IN  IF answer.status = "DATA"
      THEN [s |-> [s EXCEPT !.wire = w, !.chunks = @ + 1], ret |-> <<s.chunks + 1>>, exc |-> NoExc]
      ELSE [s |-> [s EXCEPT !.wire = w, !.tstatus = TransactionStatus(answer), !.final = answer],
            ret |-> << >>,
            exc |-> IF answer.status # "COMMAND_OK" THEN TerminalError(None) ELSE NoExc]

\* Copy.read; answer is what copy_from gives: the next chunk of data (the
\* server's k-th chunk is <<k>>, never empty), or the terminal result, which
\* the generator raises as an error when it is not COMMAND_OK
read(s, answer) ==
  IF s.copy.finished THEN [s |-> s, ret |-> << >>, exc |-> NoExc]
  ELSE LET w == Append(s.wire, Call("copy_from", 0, << >>, None))
       IN  IF answer.status = "DATA"
           THEN [s |-> [s EXCEPT !.wire = w, !.chunks = @ + 1],
                 ret |-> <<s.chunks + 1>>, exc |-> NoExc]
           ELSE IF answer.status # "COMMAND_OK"
           THEN [s |-> [s EXCEPT !.wire = w, !.tstatus = TransactionStatus(answer), !.final = answer],
                 ret |-> << >>, exc |-> TerminalError(None)]
           ELSE [s |-> [s EXCEPT !.wire = w, !.tstatus = TransactionStatus(answer), !.final = answer,
                                 !.copy.finished = TRUE,
                                 !.cur.rowcount = IF answer.command_tuples # None
                                                  THEN answer.command_tuples[1] ELSE -1],
                 ret |-> << >>, exc |-> NoExc]

\* Copy.__iter__ run to its end: read until the data is empty, yield the rest
RECURSIVE copy_iter(_, _, _)
copy_iter(s, answers, out) ==
  LET r == read(s, Head(answers))
  IN  IF r.exc # NoExc \/ r.ret = << >> THEN [s |-> r.s, ret |-> out, exc |-> r.exc]
      ELSE copy_iter(r.s, Tail(answers), Append(out, r.ret))

\* n chunks of data, then the terminal result `last`
AnswersOf(n, last) == [i \in 1..(n + 1) |-> IF i <= n THEN PGresult("DATA", 0, None, "TEXT") ELSE last]

\* the Copy object of a COPY OUT can be read, in the block or after it
CanRead ==
  /\ pc = "idle"
  /\ copy.state \in {"entered", "exited"}
  /\ copy.pgresult.status = "COPY_OUT"
  /\ block.exc = NoExc

\* the outcome r of a read or an iteration reaches the caller; an error it
\* raises reaches the caller's code
ReadStep(op, r) ==
  /\ lastop' = op
  /\ ret' = r.ret
  /\ exc' = r.exc
  /\ copy' = r.s.copy
  /\ cur' = r.s.cur
  /\ wire' = r.s.wire
  /\ chunks' = r.s.chunks
  /\ tstatus' = r.s.tstatus
  /\ final' = r.s.final
  /\ block' = IF r.exc # NoExc THEN [block EXCEPT !.exc = r.exc] ELSE block
  /\ UNCHANGED <<pc, incoming, todo, first, fetched, iter, lock, context, connVars, waitVars, codecVars, pgVars>>

\* Copy.read
CopyRead(answer) ==
  /\ CanRead
  /\ answer.status = "DATA" => chunks < MaxChunks
  /\ ReadStep("read", read(ReadState(copy, cur, wire, chunks, tstatus, final), answer))

\* `for data in copy`, the server delivering n more chunks and then `last`
CopyIterate(n, last) ==
  /\ CanRead
  /\ chunks + n <= MaxChunks
  /\ ReadStep("iter", copy_iter(ReadState(copy, cur, wire, chunks, tstatus, final), AnswersOf(n, last), << >>))

\* _finish that swallows the error of copy_end
_finish_swallowing(w, berr, answer) ==
  [wire |-> Append(w, Call("copy_end", 0, << >>, berr)),
   exc |-> NoExc,
   rowcount |-> IF answer.command_tuples # None THEN answer.command_tuples[1] ELSE -1]

\* Copy._finish(error), answer being the terminal result copy_end gets:
\* the calls it adds to the wire log w, and the outcome
_finish(w, berr, answer) ==
  [wire |-> Append(w, Call("copy_end", 0, << >>, berr)),
   exc |-> IF answer.status # "COMMAND_OK" THEN TerminalError(berr) ELSE NoExc,
   rowcount |-> IF answer.command_tuples # None THEN answer.command_tuples[1] ELSE -1]

\* __exit__ that ends the COPY without an error when the block raised
exit_calls_no_error(cp, w, e) ==
  [wire |-> IF cp.format = "BINARY" /\ ~cp.first_row
            THEN Append(w, Call("copy_to", 0, Trailer, None)) ELSE w,
   berr |-> None]

\* __exit__ before _finish returns: the wire log and the error for _finish
exit_calls(cp, w, e) ==
  IF e = NoExc
  THEN [wire |-> IF cp.format = "BINARY" /\ ~cp.first_row
                 THEN Append(w, Call("copy_to", 0, Trailer, None)) ELSE w,
        berr |-> None]
  ELSE [wire |-> w, berr |-> Some(ErrorMessage(e))]

\* an exception raised by _finish inside __exit__ while the exception of the
\* block is being handled gets that exception as its __context__
exit_context(body, raised) == IF raised # NoExc THEN body ELSE NoExc

\* Copy.__exit__: the block is left, normally or by the error block.exc
CopyExit ==
  /\ pc = "idle"
  /\ copy.state = "entered"
  /\ lastop' = "exit"
  /\ ret' = None
  /\ IF copy.pgresult.status = "COPY_OUT"
     THEN /\ copy' = [copy EXCEPT !.state = "exited"]
          /\ exc' = block.exc
          /\ context' = NoExc
          /\ UNCHANGED <<cur, wire, tstatus, final>>
     ELSE LET x == exit_calls(copy, wire, block.exc)
          IN  \E answer \in CopyEndAnswers(x.berr) :
                LET f == _finish(x.wire, x.berr, answer)
                IN  /\ wire' = f.wire
                    /\ exc' = f.exc
                    /\ tstatus' = TransactionStatus(answer)
                    /\ final' = answer
                    /\ context' = exit_context(block.exc, f.exc)
                    /\ IF f.exc # NoExc
                       THEN /\ copy' = [copy EXCEPT !.state = "exited"]
                            /\ UNCHANGED cur
                       ELSE /\ copy' = [copy EXCEPT !.state = "exited", !.finished = TRUE]
                            /\ cur' = [cur EXCEPT !.rowcount = f.rowcount]
  /\ UNCHANGED <<pc, incoming, todo, first, fetched, iter, lock, block, chunks, connVars, waitVars, codecVars, pgVars>>

\* Copy.__enter__ on a Copy object whose block was left
CopyEnter ==
  /\ pc = "idle"
  /\ copy.state = "exited"
  /\ copy.nenter < MaxEnters
  /\ lastop' = "enter"
  /\ ret' = None
  /\ IF copy.finished
     THEN /\ exc' = Exc("TypeError", <<"copy blocks can be used only once">>)
          /\ UNCHANGED <<copy, block>>
     ELSE /\ exc' = NoExc
          /\ copy' = [copy EXCEPT !.state = "entered", !.nenter = @ + 1]
          /\ block' = [block EXCEPT !.exc = NoExc]
  /\ context' = NoExc
  /\ UNCHANGED <<cur, pc, incoming, todo, first, wire, fetched, iter, lock>>
  /\ UNCHANGED <<tstatus, chunks, final, connVars, waitVars, codecVars, pgVars>>


(* ------------------------------ waiting -------------------------------- *)
\* selectors.EVENT_READ and EVENT_WRITE, the values of Wait and Ready
EVENT_READ == 1
EVENT_WRITE == 2

\* Wait.R, Wait.W, Wait.RW
WaitR == EVENT_READ
WaitW == EVENT_WRITE
WaitRW == EVENT_READ + EVENT_WRITE
Wants == {WaitR, WaitW, WaitRW}

\* Ready.R, Ready.W
ReadyR == EVENT_READ
ReadyW == EVENT_WRITE

\* the events a want asks for
EventsOf(want) ==
  (IF want \in {WaitR, WaitRW} THEN {EVENT_READ} ELSE {})
    \cup (IF want \in {WaitW, WaitRW} THEN {EVENT_WRITE} ELSE {})

\* the bit mask of a set of events
RECURSIVE Mask(_)
Mask(events) ==
  IF events = {} THEN 0
  ELSE LET x == CHOOSE x \in events : TRUE IN x + Mask(events \ {x})

\* the readiness the OS can report for a file descriptor waited on with `want`
Readiness(want) == (SUBSET EventsOf(want)) \ {{}}

\* a protocol generator: the wants it yields one after the other, whatever it
\* is sent, and the value it returns
Generators ==
  {[wants |-> w, rv |-> rv] :
     w \in UNION {[1..n -> Wants] : n \in 0..MaxYields}, rv \in {None, Some(1)}}

\* no generator is being waited for
NoWaiter ==
  [pc |-> "idle", gen |-> [wants |-> << >>, rv |-> None], pos |-> 0,
   sent |-> << >>, sent_async |-> << >>, rv |-> None, rv_async |-> None,
   registered |-> {}, callbacks |-> {}, err |-> NoExc,
   ticks |-> 0, at_resume |-> {}]

\* wait(): what gen.send gets when select reports `events` on the one
\* registered file descriptor: ready[0][1], the mask of the events
wait_send(events) == Mask(events)

\* wait_async(): what gen.send gets when the loop reports `events`: the state
\* of the callback that ran last
wait_async_send(events, last) == last

\* `rv = ex.args[0] if ex.args else None` on the StopIteration of the generator
StopIterationValue(g) == g.rv

\* wait(): sel.register(fd, s) before the select
\* wait_async(): loop.add_reader / loop.add_writer before the await of the
\* event
Registered(w) ==
  IF w.pc = "waiting"
  THEN [w EXCEPT !.registered = EventsOf(w.gen.wants[w.pos]),
                 !.callbacks = EventsOf(w.gen.wants[w.pos])]
  ELSE w

\* a wait_async() that removes the reader only
Unregistered_reader_only(w) ==
  [w EXCEPT !.registered = {}, !.callbacks = @ \ {EVENT_READ}]

\* wait(): sel.unregister(fd) after the select
\* wait_async(): loop.remove_reader / loop.remove_writer after the await
Unregistered(w) == [w EXCEPT !.registered = {}, !.callbacks = {}]

\* a select that gives up the wait when its timeout expires
select_timeout_gives_up(w) ==
  [Unregistered(w) EXCEPT !.pc = "done", !.ticks = @ + 1]

\* wait(): sel.select(timeout) returns an empty list and `while not ready`
\* calls it again
select_timeout(w) == [w EXCEPT !.ticks = @ + 1]

\* an exception raised inside sel.select() or delivered at `await ev.wait()`:
\* the try statements of wait and wait_async catch StopIteration only and
\* have no finally clause, so the exception leaves with nothing else done
wait_abort(w, e) == [w EXCEPT !.pc = "aborted", !.err = e]

\* wait(gen) and wait_async(gen) call next(gen) on the same generator g
WaitStart(g) ==
  /\ waiter.pc \in {"idle", "done", "aborted"}
  /\ waiter' =
       IF g.wants = << >>
       THEN [NoWaiter EXCEPT !.pc = "done", !.gen = g,
                             !.rv = StopIterationValue(g), !.rv_async = StopIterationValue(g)]
       ELSE Registered([NoWaiter EXCEPT !.pc = "waiting", !.gen = g, !.pos = 1])
  /\ UNCHANGED <<curVars, copyVars, connVars, lock, codecVars, pgVars>>

\* the file descriptor becomes ready for `events`: select returns in wait(),
\* the callbacks of the events run in wait_async(), the last of them being
\* the one of `last`; both send to the generator, which yields or returns
WaitReady(events, last) ==
  /\ waiter.pc = "waiting"
  /\ events \in Readiness(waiter.gen.wants[waiter.pos])
  /\ last \in events
  /\ LET u == Unregistered(waiter)
         w == [u EXCEPT !.sent = Append(@, wait_send(events)),
                        !.sent_async = Append(@, wait_async_send(events, last)),
                        !.at_resume = u.registered \cup u.callbacks]
     IN  waiter' =
           Registered(
             IF waiter.pos = Len(waiter.gen.wants)
             THEN [w EXCEPT !.pc = "done", !.rv = StopIterationValue(waiter.gen),
                            !.rv_async = StopIterationValue(waiter.gen)]
             ELSE [w EXCEPT !.pos = @ + 1])
  /\ UNCHANGED <<curVars, copyVars, connVars, lock, codecVars, pgVars>>

\* the timeout of select expires in wait() with the file descriptor not ready
WaitTick ==
  /\ waiter.pc = "waiting"
  /\ waiter.ticks < MaxTicks
  /\ waiter' = select_timeout(waiter)
  /\ UNCHANGED <<curVars, copyVars, connVars, lock, codecVars, pgVars>>

\* the wait is aborted while the file descriptor is registered: an interrupt
\* seen by wait() during select, a cancellation delivered to wait_async()
WaitAbort(e) ==
  /\ waiter.pc = "waiting"
  /\ waiter' = wait_abort(waiter, e)
  /\ UNCHANGED <<curVars, copyVars, connVars, lock, codecVars, pgVars>>

(* ------------------------------ arrays --------------------------------- *)
\* builtins["text"].oid and .array_oid; int4 is another registered type
TEXT_OID == 25
TEXT_ARRAY_OID == 1009
INT4_OID == 23
INT4_ARRAY_OID == 1007

\* the Python values the list adapters meet: a list, None, or a scalar, which
\* stands for the bytes and the oid its dumper yields
List(items) == [k |-> "list", items |-> items, oid |-> 0, bytes |-> << >>]
Nil == [k |-> "nil", items |-> << >>, oid |-> 0, bytes |-> << >>]
Scalar(oid, bytes) == [k |-> "scalar", items |-> << >>, oid |-> oid, bytes |-> bytes]

\* the bytes of the characters the array grammar names
DQUOTE == 34
COMMA == 44
BACKSLASH == 92
LBRACE == 123
RBRACE == 125
\* b"NULL"
NULL == <<78, 85, 76, 76>>
\* the bytes \s matches in a bytes pattern
Whitespace == {9, 10, 11, 12, 13, 32}

\* bytes.lower() on ASCII letters, as the flag (?i) compares
Lower(b) == [i \in DOMAIN b |-> IF b[i] \in 65..90 THEN b[i] + 32 ELSE b[i]]

\* BaseListAdapter._array_oid
_array_oid(base_oid) ==
  IF base_oid = TEXT_OID THEN TEXT_ARRAY_OID
  ELSE IF base_oid = INT4_OID THEN INT4_ARRAY_OID
  ELSE TEXT_ARRAY_OID

\* a quoting rule that forgets the word NULL
NeedsQuote_not_null(ad) ==
  \/ ad = << >>
  \/ \E i \in DOMAIN ad : ad[i] \in {DQUOTE, LBRACE, RBRACE, COMMA, BACKSLASH} \cup Whitespace

\* TextListAdapter._re_needs_quote.search(ad) is not None
NeedsQuote(ad) ==
  \/ ad = << >>
  \/ \E i \in DOMAIN ad : ad[i] \in {DQUOTE, LBRACE, RBRACE, COMMA, BACKSLASH} \cup Whitespace
  \/ Lower(ad) = Lower(NULL)

\* TextListAdapter._re_escape.sub(br"\\\1", ad)
RECURSIVE EscapeQuoted(_)
EscapeQuoted(ad) ==
  IF ad = << >> THEN << >>
  ELSE (IF Head(ad) \in {DQUOTE, BACKSLASH} THEN <<BACKSLASH, Head(ad)>> ELSE <<Head(ad)>>)
         \o EscapeQuoted(Tail(ad))

\* what the closure adapt_list works on: tokens (text) or data (binary), the
\* nonlocal oid and hasnull, and the exception raised
AdaptState(out, oid, hasnull, e) == [out |-> out, oid |-> oid, hasnull |-> hasnull, exc |-> e]

DifferentTypes == Exc("DataError", <<"array contains different types">>)

\* a unification that lets every element in
UnifyOid_lenient(st, ad_oid) ==
  IF st.oid = 0 THEN [st EXCEPT !.oid = ad_oid] ELSE st

\* the oid check both writers make on the tuple a dumper yields
UnifyOid(st, ad_oid) ==
  IF st.oid = 0 THEN [st EXCEPT !.oid = ad_oid]
  ELSE IF st.oid # ad_oid THEN [st EXCEPT !.exc = DifferentTypes]
  ELSE st

\* TextListAdapter.adapt.adapt_list for a scalar item
text_adapt_scalar(item, st) ==
  LET st1 == UnifyOid(st, item.oid)
      ad == item.bytes
      token == IF NeedsQuote(ad) THEN <<DQUOTE>> \o EscapeQuoted(ad) \o <<DQUOTE>> ELSE ad
  IN  IF st1.exc # NoExc THEN st1 ELSE [st1 EXCEPT !.out = Append(@, token)]

\* TextListAdapter.adapt.adapt_list, and its loop over the items from the i-th
RECURSIVE text_adapt_list(_, _)
RECURSIVE text_adapt_items(_, _, _)
text_adapt_list(obj, st) ==
  IF obj = << >> THEN [st EXCEPT !.out = Append(@, <<LBRACE, RBRACE>>)]
  ELSE LET st1 == text_adapt_items(obj, 1, [st EXCEPT !.out = Append(@, <<LBRACE>>)])
       IN  IF st1.exc # NoExc THEN st1
           ELSE [st1 EXCEPT !.out = [i \in DOMAIN @ |-> IF i = Len(@) THEN <<RBRACE>> ELSE @[i]]]

text_adapt_items(obj, i, st) ==
  IF i > Len(obj) THEN st
  ELSE LET item == obj[i]
           st1 == IF item.k = "list" THEN text_adapt_list(item.items, st)
                  ELSE IF item.k = "nil" THEN [st EXCEPT !.out = Append(@, NULL)]
                  ELSE text_adapt_scalar(item, st)
       IN  IF st1.exc # NoExc THEN st1
           ELSE text_adapt_items(obj, i + 1, [st1 EXCEPT !.out = Append(@, <<COMMA>>)])

\* the outcome of an adapt: the bytes and the oid returned, or the exception
Adapted(bytes, oid, e) == [bytes |-> bytes, oid |-> oid, exc |-> e]

\* TextListAdapter.adapt
TextListAdapter_adapt(obj) ==
  LET st == text_adapt_list(obj.items, AdaptState(<< >>, 0, 0, NoExc))
  IN  IF st.exc # NoExc THEN Adapted(<< >>, 0, st.exc)
      ELSE Adapted(Flatten(st.out), _array_oid(st.oid), NoExc)

\* ArrayCasterText._re_parse: the end of the quoted string that starts at
\* data[p] = '"', q being the position after the part matched so far; 0 when
\* the string is not closed ("." does not match a newline)
RECURSIVE QuotedEnd(_, _)
QuotedEnd(data, q) ==
  IF q > Len(data) THEN 0
  ELSE IF data[q] = DQUOTE THEN q
  ELSE IF data[q] = BACKSLASH
       THEN IF q + 1 <= Len(data) /\ data[q + 1] # 10 THEN QuotedEnd(data, q + 2) ELSE 0
  ELSE QuotedEnd(data, q + 1)

\* the end of the unquoted string that starts at data[p]
RECURSIVE UnquotedEnd(_, _)
UnquotedEnd(data, q) ==
  IF q + 1 <= Len(data) /\ data[q + 1] \notin {DQUOTE, LBRACE, RBRACE, COMMA, BACKSLASH}
  THEN UnquotedEnd(data, q + 1) ELSE q

\* the end of the group 1 of the match of _re_parse at data[p], 0 for no match
MatchEnd(data, p) ==
  IF data[p] \in {LBRACE, RBRACE} THEN p
  ELSE IF data[p] = DQUOTE THEN QuotedEnd(data, p + 1)
  ELSE IF data[p] \notin {COMMA, BACKSLASH} THEN UnquotedEnd(data, p)
  ELSE 0

\* [m.group(1) for m in _re_parse.finditer(data)], scanning from data[p]
RECURSIVE Tokens(_, _)
Tokens(data, p) ==
  IF p > Len(data) THEN << >>
  ELSE LET e == MatchEnd(data, p)
       IN  IF e = 0 THEN Tokens(data, p + 1)
           ELSE <<SubSeq(data, p, e)>>
                  \o Tokens(data, IF e + 1 <= Len(data) /\ data[e + 1] = COMMA THEN e + 2 ELSE e + 1)

\* ArrayCasterText._re_unescape.sub(br"\1", t)
RECURSIVE Unescape(_)
Unescape(t) ==
  IF t = << >> THEN << >>
  ELSE IF Head(t) = BACKSLASH /\ Len(t) >= 2 /\ t[2] # 10
       THEN <<t[2]>> \o Unescape(SubSeq(t, 3, Len(t)))
  ELSE <<Head(t)>> \o Unescape(Tail(t))

\* the outcome of a cast: the list returned, or the exception
Cast(rv, e) == [rv |-> rv, exc |-> e]

\* the lists of `stack`, each appended to the one below it when it was made:
\* the value of the list at the bottom
RECURSIVE Nested(_)
Nested(stack) ==
  IF Len(stack) = 1 THEN List(stack[1])
  ELSE LET n == Len(stack)
       IN  Nested([i \in 1..(n - 1) |->
                     IF i = n - 1 THEN Append(stack[i], List(stack[n])) ELSE stack[i]])

\* the loop of ArrayCasterText.cast over the tokens; stack holds the items of
\* the lists being filled, rv is "none" (None), "first" (the list of the
\* first "{", still on the stack) or "popped" (the list `popped`)
RECURSIVE text_cast_loop(_, _, _, _, _)
text_cast_loop(tokens, base_oid, stack, rv, popped) ==
  IF tokens = << >>
  THEN IF rv = "none" THEN Cast(Nil, Exc("AssertionError", << >>))
       ELSE IF rv = "first" THEN Cast(Nested(stack), NoExc)
       ELSE Cast(popped, NoExc)
  ELSE LET t == Head(tokens)
           n == Len(stack)
       IN  IF t = <<LBRACE>>
           THEN text_cast_loop(Tail(tokens), base_oid, Append(stack, << >>),
                               IF rv = "none" THEN "first" ELSE rv, popped)
           ELSE IF t = <<RBRACE>>
           THEN IF stack = << >>
                THEN Cast(Nil, Exc("DataError", <<"malformed array, unexpected '}'">>))
                ELSE text_cast_loop(Tail(tokens), base_oid,
                       [i \in 1..(n - 1) |->
                          IF i = n - 1 THEN Append(stack[i], List(stack[n])) ELSE stack[i]],
                       "popped", List(stack[n]))
           ELSE IF stack = << >>
                THEN Cast(Nil, Exc("DataError", <<"malformed array, unexpected ''">>))
                ELSE LET v == IF t = NULL THEN Nil
                              ELSE IF Head(t) = DQUOTE
                                   THEN Scalar(base_oid, Unescape(SubSeq(t, 2, Len(t) - 1)))
                              ELSE Scalar(base_oid, t)
                     IN  text_cast_loop(Tail(tokens), base_oid,
                                        [stack EXCEPT ![n] = Append(@, v)], rv, popped)

\* ArrayCasterText.cast, for the caster of the arrays of base_oid
ArrayCasterText_cast(data, base_oid) ==
  text_cast_loop(Tokens(data, 1), base_oid, << >>, "none", Nil)

\* BinaryListAdapter.adapt.calc_dims: the lengths along the leftmost spine
RECURSIVE calc_dims(_)
calc_dims(L) ==
  IF L.k # "list" THEN [dims |-> << >>, exc |-> NoExc]
  ELSE IF L.items = << >>
  THEN [dims |-> << >>, exc |-> Exc("DataError", <<"lists cannot contain empty lists">>)]
  ELSE LET r == calc_dims(L.items[1])
       IN  [dims |-> <<Len(L.items)>> \o r.dims, exc |-> r.exc]

\* what Transformer.adapt returns: a tuple (bytes, oid) or the bare bytes,
\* the bytes being None for None; or the exception of the dumper
Dumped(tuple, bytes, oid, e) == [tuple |-> tuple, bytes |-> bytes, oid |-> oid, exc |-> e]

RECURSIVE BinaryListAdapter_adapt(_)
RECURSIVE tx_adapt_binary(_)
RECURSIVE bin_adapt_item(_, _)
RECURSIVE bin_adapt_items(_, _, _, _, _)
RECURSIVE bin_adapt_list(_, _, _, _)

\* self._tx.adapt(item, Format.BINARY): the dumper registered for the type of
\* the item; for a list it is BinaryListAdapter
tx_adapt_binary(item) ==
  IF item.k = "nil" THEN Dumped(FALSE, None, 0, NoExc)
  ELSE IF item.k = "list"
  THEN LET r == BinaryListAdapter_adapt(item)
       IN  Dumped(TRUE, Some(r.bytes), r.oid, r.exc)
  ELSE Dumped(TRUE, Some(item.bytes), item.oid, NoExc)

\* BinaryListAdapter.adapt.adapt_list: one item of the last dimension
bin_adapt_item(item, st) ==
  LET ad == tx_adapt_binary(item)
      st1 == IF ad.tuple THEN UnifyOid(st, ad.oid) ELSE st
  IN  IF ad.exc # NoExc THEN [st EXCEPT !.exc = ad.exc]
      ELSE IF st1.exc # NoExc THEN st1
      ELSE IF ad.bytes = None
      THEN [st1 EXCEPT !.hasnull = 1, !.out = Append(@, <<255, 255, 255, 255>>)]
      ELSE [st1 EXCEPT !.out = Append(Append(@, Int4(Len(ad.bytes[1]))), ad.bytes[1])]

\* BinaryListAdapter.adapt.adapt_list: the loops over the items, from the i-th
bin_adapt_items(L, i, dim, dims, st) ==
  IF i > Len(L) THEN st
  ELSE LET item == L[i]
           st1 == IF dim = Len(dims) THEN bin_adapt_item(item, st)
                  ELSE IF item.k # "list"
                  THEN [st EXCEPT !.exc = Exc("DataError", <<"nested lists have inconsistent depths">>)]
                  ELSE bin_adapt_list(item.items, dim + 1, dims, st)
       IN  IF st1.exc # NoExc THEN st1 ELSE bin_adapt_items(L, i + 1, dim, dims, st1)

\* BinaryListAdapter.adapt.adapt_list (dim counts from 1)
bin_adapt_list(L, dim, dims, st) ==
  IF Len(L) # dims[dim]
  THEN [st EXCEPT !.exc = Exc("DataError", <<"nested lists have inconsistent lengths">>)]
  ELSE bin_adapt_items(L, 1, dim, dims, st)

\* BinaryListAdapter.adapt
BinaryListAdapter_adapt(obj) ==
  IF obj.items = << >>
  THEN Adapted(Int4(0) \o Int4(0) \o Int4(TEXT_OID), TEXT_ARRAY_OID, NoExc)
  ELSE LET d == calc_dims(obj)
       IN  IF d.exc # NoExc THEN Adapted(<< >>, 0, d.exc)
           ELSE LET st == bin_adapt_list(obj.items, 1, d.dims, AdaptState(<< >>, 0, 0, NoExc))
                    oid == IF st.oid = 0 THEN TEXT_OID ELSE st.oid
                IN  IF st.exc # NoExc THEN Adapted(<< >>, 0, st.exc)
                    ELSE Adapted(Int4(Len(d.dims)) \o Int4(st.hasnull) \o Int4(oid)
                                   \o Flatten([i \in DOMAIN d.dims |-> Int4(d.dims[i]) \o Int4(1)])
                                   \o Flatten(st.out),
                                 _array_oid(oid), NoExc)

\* struct "!I" / "!i" unpack_from(data, p - 1), for values below 2^31
Unpack4(data, p) ==
  (IF data[p] >= 128 THEN data[p] - 256 ELSE data[p]) * 16777216
    + data[p + 1] * 65536 + data[p + 2] * 256 + data[p + 3]

\* a consume that takes the length -1 for an empty value
consume_no_null(data, oid, p) ==
  LET size == Unpack4(data, p)
  IN  IF size # -1
      THEN [v |-> Scalar(oid, SubSeq(data, p + 4, p + 3 + size)), p |-> p + 4 + size]
      ELSE [v |-> Scalar(oid, << >>), p |-> p + 4]

\* ArrayCasterBinary.cast.consume: the next item of the generator at position
\* p, and the position after it
consume(data, oid, p) ==
  LET size == Unpack4(data, p)
  IN  IF size # -1
      THEN [v |-> Scalar(oid, SubSeq(data, p + 4, p + 3 + size)), p |-> p + 4 + size]
      ELSE [v |-> Nil, p |-> p + 4]

\* ArrayCasterBinary.cast.agg, with the position of the generator; agg_n is
\* the list comprehension, acc the items made so far
RECURSIVE agg(_, _, _, _)
RECURSIVE agg_n(_, _, _, _, _, _)
agg(data, oid, dims, p) ==
  IF dims = << >> THEN consume(data, oid, p)
  ELSE agg_n(data, oid, Tail(dims), Head(dims), p, << >>)

agg_n(data, oid, dims, n, p, acc) ==
  IF n = 0 THEN [v |-> List(acc), p |-> p]
  ELSE LET r == agg(data, oid, dims, p)
       IN  agg_n(data, oid, dims, n - 1, r.p, Append(acc, r.v))

\* ArrayCasterBinary.cast
ArrayCasterBinary_cast(data) ==
  LET ndims == Unpack4(data, 1)
      oid == Unpack4(data, 9)
      dims == [i \in 1..ndims |-> Unpack4(data, 13 + 8 * (i - 1))]
  IN  IF ndims = 0 THEN Cast(List(<< >>), NoExc)
      ELSE Cast(agg(data, oid, dims, 13 + 8 * ndims).v, NoExc)

\* no codec was called yet; the codecs keep nothing from one call to the
\* next, so each call is made in this state
NoCodec ==
  [op |-> "none", obj |-> Nil, data |-> << >>, out |-> Adapted(<< >>, 0, NoExc),
   back |-> Cast(Nil, NoExc)]

\* register(array_oid, base_oid): the base oid of the caster of an array oid
BaseOid(array_oid) == IF array_oid = INT4_ARRAY_OID THEN INT4_OID ELSE TEXT_OID

\* TextListAdapter.adapt(obj), and the text caster registered for the array
\* oid it returns, on its output
TextAdapt(obj) ==
  /\ codec = NoCodec
  /\ LET a == TextListAdapter_adapt(obj)
     IN  codec' = [op |-> "text", obj |-> obj, data |-> << >>, out |-> a,
                   back |-> IF a.exc = NoExc THEN ArrayCasterText_cast(a.bytes, BaseOid(a.oid))
                            ELSE Cast(Nil, NoExc)]
  /\ UNCHANGED <<curVars, copyVars, connVars, lock, waitVars, pgVars>>

\* BinaryListAdapter.adapt(obj), and the binary caster on its output
BinaryAdapt(obj) ==
  /\ codec = NoCodec
  /\ LET a == BinaryListAdapter_adapt(obj)
     IN  codec' = [op |-> "binary", obj |-> obj, data |-> << >>, out |-> a,
                   back |-> IF a.exc = NoExc THEN ArrayCasterBinary_cast(a.bytes)
                            ELSE Cast(Nil, NoExc)]
  /\ UNCHANGED <<curVars, copyVars, connVars, lock, waitVars, pgVars>>

\* BaseCopy._format_row_text(row), the row being a list of bytes and None
FormatRowText(row) ==
  /\ codec = NoCodec
  /\ codec' = [op |-> "copyrow", obj |-> row,
               data |-> _format_row_text(copy, [i \in DOMAIN row.items |->
                          IF row.items[i] = Nil THEN None ELSE Some(row.items[i].bytes)]).data,
               out |-> Adapted(<< >>, 0, NoExc), back |-> Cast(Nil, NoExc)]
  /\ UNCHANGED <<curVars, copyVars, connVars, lock, waitVars, pgVars>>

\* ArrayCasterText.cast(data) on bytes received from the server
TextCast(data) ==
  /\ codec = NoCodec
  /\ codec' = [op |-> "cast", obj |-> Nil, data |-> data, out |-> Adapted(<< >>, 0, NoExc),
               back |-> ArrayCasterText_cast(data, TEXT_OID)]
  /\ UNCHANGED <<curVars, copyVars, connVars, lock, waitVars, pgVars>>

(* ------------------------------- Init ---------------------------------- *)
Callers == 1..NumCallers

Init ==
  /\ cur = NewCursor
  /\ pc = "idle"
  /\ incoming = << >>
  /\ todo = << >>
  /\ first = TRUE
  /\ lock = 0
  /\ wire = << >>
  /\ exc = NoExc
  /\ ret = None
  /\ lastop = "init"
  /\ fetched = << >>
  /\ iter = "none"
  /\ copy = NoCopy
  /\ block = NewBlock
  /\ tstatus = "IDLE"
  /\ chunks = 0
  /\ final = NoResult
  /\ context = NoExc
  /\ waiter = NoWaiter
  /\ codec = NoCodec
  /\ cpc = [t \in Callers |-> "idle"]
  /\ cop = [t \in Callers |-> "none"]
  /\ gen = [t \in Callers |-> "none"]
  /\ sess = [t \in Callers |-> "none"]
  /\ left = [t \in Callers |-> 0]
  /\ connection = OpenConnection

\* one cursor driven by one caller: queries, result sets, close
Next ==
  \/ \E params \in 0..1 : ExecuteBegin(params)
  \/ \E r \in ExecResults : pc = "execute" /\ Receive(r)
  \/ ExecuteEnd
  \/ \E n \in 0..MaxParams : ExecutemanyBegin(n)
  \/ \E prep \in PrepareAnswers, r \in ExecResults : ExecutemanyIter(prep, r)
  \/ ExecutemanyEnd
  \/ Nextset
  \/ Close

Spec == Init /\ [][Next]_vars

\* the answers of the server when the caller's statements are queries that
\* return rows, or a command
FetchAnswers == TuplesResults \cup {PGresult("COMMAND_OK", 0, None, "TEXT")}

\* one cursor driven by one caller: queries and the fetches of their rows
NextFetch ==
  \/ ExecuteBegin(0)
  \/ \E r \in FetchAnswers : pc = "execute" /\ Receive(r)
  \/ ExecuteEnd
  \/ Fetchone
  \/ \E size \in 0..(MaxRows + 1) : Fetchmany(size)
  \/ Fetchall
  \/ Iterate
  \/ Nextset
  \/ Close

SpecFetch == Init /\ [][NextFetch]_vars

\* rows of adapted items passed to write_row
CopyRows == { <<Some(<<104, 105>>)>>, <<None, Some(<<92, 9>>)>> }

\* buffers passed to write
CopyBuffers == { Bytes(<<49, 9, 97, 10>>), Str(<<233>>), Other }

\* errors the caller's code raises in the block
BlockErrors == { Exc("Exception", <<"nuttengoggenio">>) }

\* what copy_from returns: data, or the terminal result
CopyFromAnswers == {PGresult("DATA", 0, None, "TEXT")} \cup TerminalResults

\* one cursor driven by one caller: COPY sessions
NextCopy ==
  \/ StartCopyBegin
  \/ \E r \in CopyAnswers : pc = "copy" /\ Receive(r)
  \/ StartCopyEnd
  \/ \E buffer \in CopyBuffers : CopyWrite(buffer)
  \/ \E row \in CopyRows : CopyWriteRow(row)
  \/ \E e \in BlockErrors : CopyRaise(e)
  \/ \E answer \in CopyFromAnswers : CopyRead(answer)
  \/ \E n \in 0..MaxChunks, last \in TerminalResults : CopyIterate(n, last)
  \/ CopyExit
  \/ CopyEnter

SpecCopy == Init /\ [][NextCopy]_vars

\* the results the server gives to the statements of NextCursor: one row,
\* all the rows there can be, or a command without a count
CursorAnswers == {PGresult("TUPLES_OK", 1, Some(1), "TEXT"),
                  PGresult("TUPLES_OK", MaxRows, Some(MaxRows), "TEXT"),
                  PGresult("COMMAND_OK", 0, None, "TEXT")}

\* the results the server gives to the copy() of NextCursor
CursorCopyAnswers == {PGresult("COPY_OUT", 0, None, "TEXT"), PGresult("COMMAND_OK", 0, None, "TEXT")}

\* one cursor driven by one caller: every operation of the cursor but the
\* iteration
NextOps ==
  \/ ExecuteBegin(0)
  \/ \E r \in CursorAnswers : pc = "execute" /\ Receive(r)
  \/ ExecuteEnd
  \/ \E n \in 1..MaxParams : ExecutemanyBegin(n)
  \/ \E prep \in PrepareAnswers, result \in CursorAnswers : ExecutemanyIter(prep, result)
  \/ ExecutemanyEnd
  \/ StartCopyBegin
  \/ \E r \in CursorCopyAnswers : pc = "copy" /\ Receive(r)
  \/ StartCopyEnd
  \/ CopyExit
  \/ Fetchone
  \/ \E size \in 0..MaxRows : Fetchmany(size)
  \/ Fetchall
  \/ Nextset
  \/ Close

SpecOps == Init /\ [][NextOps]_vars

\* one cursor driven by one caller: every operation of the cursor
NextCursor == NextOps \/ Iterate

SpecCursor == Init /\ [][NextCursor]_vars

\* the answers of the server that make execute, executemany and copy end in
\* each of their ways
LockAnswers == {PGresult("TUPLES_OK", 1, Some(1), "TEXT"), PGresult("FATAL_ERROR", 0, None, "TEXT"),
                PGresult("COPY_IN", 0, None, "TEXT"), PGresult("BAD_RESPONSE", 0, None, "TEXT")}

\* errors of the connection met while sending or waiting
WireErrors == {Exc("OperationalError", <<"connection lost">>)}

\* one cursor driven by one caller: the operations that take the lock, ending
\* in every way they can, and the block of a COPY
NextLock ==
  \/ ExecuteBegin(0)
  \/ \E r \in LockAnswers : Receive(r)
  \/ ExecuteEnd
  \/ \E n \in 0..MaxParams : ExecutemanyBegin(n)
  \/ \E prep \in PrepareAnswers, result \in LockAnswers : ExecutemanyIter(prep, result)
  \/ ExecutemanyEnd
  \/ StartCopyBegin
  \/ StartCopyEnd
  \/ \E buffer \in CopyBuffers : CopyWrite(buffer)
  \/ \E e \in BlockErrors : CopyRaise(e)
  \/ CopyExit
  \/ Close
  \/ \E e \in WireErrors : WireRaises(e)

SpecLock == Init /\ [][NextLock]_vars

\* cursors of both formats on a connection that can be closed or lost: the
\* operations that send a query, ending in every way they can
NextQuery ==
  \/ \E format \in {"TEXT", "BINARY"} : NewCursorOf(format)
  \/ ConnectionClose
  \/ ConnectionLost
  \/ \E params \in 0..1 : ExecuteBegin(params)
  \/ \E r \in LockAnswers : Receive(r)
  \/ ExecuteEnd
  \/ \E n \in 1..MaxParams : ExecutemanyBegin(n)
  \/ \E prep \in PrepareAnswers, result \in LockAnswers : ExecutemanyIter(prep, result)
  \/ ExecutemanyEnd
  \/ StartCopyBegin
  \/ StartCopyEnd
  \/ CopyExit
  \/ Fetchone
  \/ Close

SpecQuery == Init /\ [][NextQuery]_vars

\* the longest list given to the array writers
MaxItems == 2
\* the longest text given to the text array reader
MaxText == 4

\* text values that need no quotes, and values of each kind that needs them:
\* the empty string, NULL in two cases, quotes, a backslash, braces, a comma,
\* a space
Strings ==
  { <<97>>, << >>, NULL, <<110, 117, 76, 108>>, <<DQUOTE, 99, DQUOTE>>, <<BACKSLASH>>,
    <<LBRACE, RBRACE>>, <<97, COMMA, 98>>, <<32>> }

\* the items of the flat lists: None, strings, an integer
Elements == {Nil, Scalar(INT4_OID, <<49>>)} \cup {Scalar(TEXT_OID, b) : b \in Strings}

\* the items of the nested lists
FewElements == {Nil, Scalar(TEXT_OID, <<97>>), Scalar(INT4_OID, <<49>>)}

ListsOf(S) == {List(q) : q \in UNION {[1..n -> S] : n \in 0..MaxItems}}

\* lists of up to three levels, rectangular or not
DeepLists ==
  LET a == Scalar(TEXT_OID, <<97>>)
      b == Scalar(TEXT_OID, <<98>>)
      c == Scalar(TEXT_OID, <<DQUOTE, 99, DQUOTE>>)
      i == Scalar(INT4_OID, <<49>>)
  IN  { List(<<List(<<a, b>>), List(<<c, Nil>>)>>),
        List(<<List(<<List(<<a, Nil>>)>>), List(<<List(<<Nil, b>>)>>)>>),
        List(<<List(<<List(<<a>>)>>), List(<<List(<<i>>)>>)>>),
        List(<<List(<<List(<<a>>), List(<<b, c>>)>>)>>),
        List(<<List(<<List(<<Nil>>), List(<< >>)>>)>>),
        List(<<List(<<Nil, List(<<i>>)>>)>>) }

\* the lists given to the array writers: flat ones, pairs of items or lists
Arrays ==
  ListsOf(Elements)
    \cup {List(<<x, y>>) : x, y \in FewElements \cup ListsOf(FewElements)}
    \cup {List(<<x>>) : x \in ListsOf(FewElements)}
    \cup DeepLists

\* the texts given to the text array reader
Texts == UNION {[1..n -> {LBRACE, RBRACE, COMMA, 97}] : n \in 0..MaxText}

\* the most fields of a row given to _format_row_text
MaxFields == 2

\* fields of a row: None, the empty bytes, plain bytes, each byte that is
\* escaped, and bytes that look like escapes
Fields ==
  {Nil} \cup {Scalar(0, b) : b \in {<< >>, <<97>>, <<78>>, <<8>>, <<9>>, <<10>>, <<11>>, <<12>>,
                                        <<13>>, <<92>>, <<92, 78>>, <<92, 116>>, <<97, 9, 98>>}}

Rows == {List(q) : q \in UNION {[1..n -> Fields] : n \in 0..MaxFields}}

\* the array codecs applied to values and to texts, the COPY text format
\* applied to rows
NextCodec ==
  \/ \E row \in Rows : FormatRowText(row)
  \/ \E obj \in Arrays : TextAdapt(obj)
  \/ \E obj \in Arrays : BinaryAdapt(obj)
  \/ \E data \in Texts : TextCast(data)

SpecCodec == Init /\ [][NextCodec]_vars

(* --------------------- callers of one connection ----------------------- *)
\* the send+wait rounds of an operation under the lock: executemany sends the
\* prepare and the prepared query for each of its n sequences of parameters
Rounds(op, n) == IF op = "executemany" THEN 2 * n ELSE 1

\* caller t calls execute, executemany (n sequences of parameters) or copy on
\* a cursor of the connection
ConnCall(t, op, n) ==
  /\ cpc[t] = "idle"
  /\ sess[t] = "none"
  /\ cpc' = [cpc EXCEPT ![t] = "acquire"]
  /\ cop' = [cop EXCEPT ![t] = op]
  /\ left' = [left EXCEPT ![t] = Rounds(op, n)]
  /\ UNCHANGED <<gen, sess, lock, curVars, copyVars, waitVars, codecVars, pgVars>>

\* `with self._conn.lock`: entered when the lock is free
ConnAcquire(t) ==
  /\ cpc[t] = "acquire"
  /\ CanAcquire
  /\ lock' = t
  /\ cpc' = [cpc EXCEPT ![t] = "start"]
  /\ UNCHANGED <<cop, gen, sess, left, curVars, copyVars, waitVars, codecVars, pgVars>>

\* _start_query under the lock: it returns, or raises and the lock is released
ConnStart(t, ok) ==
  /\ cpc[t] = "start"
  /\ IF ok
     THEN /\ cpc' = [cpc EXCEPT ![t] = "locked"]
          /\ UNCHANGED <<cop, left, lock>>
     ELSE /\ cpc' = [cpc EXCEPT ![t] = "idle"]
          /\ cop' = [cop EXCEPT ![t] = "none"]
          /\ left' = [left EXCEPT ![t] = 0]
          /\ lock' = 0
  /\ UNCHANGED <<gen, sess, curVars, copyVars, waitVars, codecVars, pgVars>>

\* a send_* call and `gen = execute(pgconn)`, then the wait runs the generator
ConnSend(t) ==
  /\ cpc[t] = "locked"
  /\ left[t] > 0
  /\ cpc' = [cpc EXCEPT ![t] = "wait"]
  /\ gen' = [gen EXCEPT ![t] = "execute"]
  /\ UNCHANGED <<cop, sess, left, lock, curVars, copyVars, waitVars, codecVars, pgVars>>

\* the generator terminates and the wait returns the results
ConnReturn(t) ==
  /\ cpc[t] = "wait"
  /\ cpc' = [cpc EXCEPT ![t] = "collect"]
  /\ gen' = [gen EXCEPT ![t] = "none"]
  /\ UNCHANGED <<cop, sess, left, lock, curVars, copyVars, waitVars, codecVars, pgVars>>

\* the results are collected: the operation goes on with its next round, or
\* it ends, by a return or an exception, and leaves the `with` of the lock;
\* a COPY that opened (kind is COPY_IN or COPY_OUT) starts the caller's session
ConnCollect(t, ok, kind) ==
  /\ cpc[t] = "collect"
  /\ IF ok /\ left[t] > 1
     THEN /\ cpc' = [cpc EXCEPT ![t] = "locked"]
          /\ left' = [left EXCEPT ![t] = @ - 1]
          /\ UNCHANGED <<cop, sess, lock>>
     ELSE /\ cpc' = [cpc EXCEPT ![t] = "idle"]
          /\ left' = [left EXCEPT ![t] = 0]
          /\ cop' = [cop EXCEPT ![t] = "none"]
          /\ sess' = [sess EXCEPT ![t] = IF ok /\ cop[t] = "copy" THEN kind ELSE "none"]
          /\ lock' = 0
  /\ UNCHANGED <<gen, curVars, copyVars, waitVars, codecVars, pgVars>>

\* executemany with no sequence of parameters left leaves the `with`
ConnRelease(t) ==
  /\ cpc[t] = "locked"
  /\ left[t] = 0
  /\ cpc' = [cpc EXCEPT ![t] = "idle"]
  /\ cop' = [cop EXCEPT ![t] = "none"]
  /\ lock' = 0
  /\ UNCHANGED <<gen, sess, left, curVars, copyVars, waitVars, codecVars, pgVars>>

\* the generators Copy.read, Copy.write and Copy._finish hand to conn.wait
CopyGenerators(kind) == IF kind = "COPY_OUT" THEN {"copy_from"} ELSE {"copy_to", "copy_end"}

\* Copy.read, Copy.write or Copy._finish in the caller's session:
\* conn.wait(g(pgconn, ...)), which no lock guards
ConnCopyWait(t, g) ==
  /\ cpc[t] = "idle"
  /\ sess[t] # "none"
  /\ g \in CopyGenerators(sess[t])
  /\ cpc' = [cpc EXCEPT ![t] = "copywait"]
  /\ gen' = [gen EXCEPT ![t] = g]
  /\ UNCHANGED <<cop, sess, left, lock, curVars, copyVars, waitVars, codecVars, pgVars>>

\* the generator of the session terminates; after copy_end the session is over
ConnCopyReturn(t) ==
  /\ cpc[t] = "copywait"
  /\ cpc' = [cpc EXCEPT ![t] = "idle"]
  /\ gen' = [gen EXCEPT ![t] = "none"]
  /\ sess' = [sess EXCEPT ![t] = IF gen[t] = "copy_end" THEN "none" ELSE @]
  /\ UNCHANGED <<cop, left, lock, curVars, copyVars, waitVars, codecVars, pgVars>>

\* Copy.__exit__ of a COPY OUT returns at once
ConnCopyOutExit(t) ==
  /\ cpc[t] = "idle"
  /\ sess[t] = "COPY_OUT"
  /\ sess' = [sess EXCEPT ![t] = "none"]
  /\ UNCHANGED <<cpc, cop, gen, left, lock, curVars, copyVars, waitVars, codecVars, pgVars>>

\* concurrent callers on cursors of one connection
NextConn ==
  \E t \in Callers :
    \/ \E op \in {"execute", "executemany", "copy"}, n \in 0..MaxParams : ConnCall(t, op, n)
    \/ ConnAcquire(t)
    \/ \E ok \in BOOLEAN : ConnStart(t, ok)
    \/ ConnSend(t)
    \/ ConnReturn(t)
    \/ \E ok \in BOOLEAN, kind \in StatusCopy : ConnCollect(t, ok, kind)
    \/ ConnRelease(t)
    \/ \E g \in {"copy_from", "copy_to", "copy_end"} : ConnCopyWait(t, g)
    \/ ConnCopyReturn(t)
    \/ ConnCopyOutExit(t)

SpecConn == Init /\ [][NextConn]_vars

\* what aborts a wait: Ctrl-C in the blocking waiter, the cancellation of the
\* task in the cooperative one
WaitErrors == {Exc("KeyboardInterrupt", << >>), Exc("CancelledError", << >>)}

\* the two waiters driven with the same generator and the same readiness
NextWait ==
  \/ \E g \in Generators : WaitStart(g)
  \/ \E events \in SUBSET {EVENT_READ, EVENT_WRITE}, last \in {ReadyR, ReadyW} :
       WaitReady(events, last)
  \/ WaitTick
  \/ \E e \in WaitErrors : WaitAbort(e)

SpecWait == Init /\ [][NextWait]_vars

\* the file descriptor the generator waits on becomes ready
Ready == \E events \in SUBSET {EVENT_READ, EVENT_WRITE}, last \in {ReadyR, ReadyW} :
           WaitReady(events, last)

\* the two waiters when nothing aborts the wait
NextWaitLive ==
  \/ \E g \in Generators : WaitStart(g)
  \/ Ready
  \/ WaitTick

\* every file descriptor waited on becomes ready in the end
SpecWaitLive == Init /\ [][NextWaitLive]_vars /\ WF_vars(Ready)

(* ------------------------- claims on the cursor ------------------------ *)
FetchOps == {"fetchone", "fetchmany", "fetchall", "iter"}

\* rows 0..k-1 of a result, in server order
RowsUpTo(k) == [i \in 1..k |-> i - 1]

HasTuples == cur.pgresult.status = "TUPLES_OK"

CallsOf(name) == SelectSeq(wire, LAMBDA w : w.call = name)

ManyDone == pc = "idle" /\ lastop = "executemany" /\ exc.type # "InterfaceError"

\* C4: executemany with n >= 1 inputs issues exactly one send_prepare, before
\* any send_query_prepared, then one send_query_prepared per input in input
\* order; a FatalError answer to the prepare raises the server error with no
\* send_query_prepared issued.
C4_PrepareOnce ==
  (ManyDone /\ wire # << >>) =>
     /\ Len(CallsOf("send_prepare")) = 1
     /\ wire[1].call = "send_prepare"
     /\ \A i \in 1..Len(CallsOf("send_query_prepared")) :
           CallsOf("send_query_prepared")[i].params = i
     /\ exc = NoExc => Len(CallsOf("send_query_prepared")) = Len(incoming)
     /\ Len(wire) = 1 => exc.type = "ServerError"

\* the sum of the command_tuples that are defined, -1 when none is
RECURSIVE SumCounts(_)
SumCounts(res) ==
  IF res = << >> THEN 0
  ELSE (IF Head(res).command_tuples # None THEN Head(res).command_tuples[1] ELSE 0)
         + SumCounts(Tail(res))

RowcountOf(res) ==
  IF \E i \in DOMAIN res : res[i].command_tuples # None THEN SumCounts(res) ELSE -1

\* C5: when executemany completes, rowcount is the sum of the command_tuples
\* of the results of its iterations that define one, -1 when none does (also
\* for an empty params_seq), whatever rowcount the cursor had before.
C5_RowcountSum ==
  (ManyDone /\ exc = NoExc) => cur.rowcount = RowcountOf(incoming)

\* C5 witness: two iterations completed, one result without a count and one
\* with a count
C5_Witness ==
  /\ ManyDone
  /\ exc = NoExc
  /\ Len(incoming) = 2
  /\ incoming[1].command_tuples = None
  /\ incoming[2].command_tuples = Some(2)
  /\ cur.rowcount = 2

ExecuteDone == pc = "idle" /\ lastop = "execute" /\ exc.type # "InterfaceError"

\* C6 as claimed: after a successful execute that collected r1..rk, rowcount is
\* the sum of the command_tuples of the results, -1 when none defines one.
C6_RowcountIsSum ==
  (ExecuteDone /\ exc = NoExc) => cur.rowcount = RowcountOf(incoming)

\* C6 amended: after a successful execute that collected r1..rk, rowcount is
\* the command_tuples of the first result r1, -1 when r1 defines none.
C6_RowcountIsFirst ==
  (ExecuteDone /\ exc = NoExc) =>
     cur.rowcount = (IF incoming[1].command_tuples # None
                     THEN incoming[1].command_tuples[1] ELSE -1)

\* C6 witness: a successful execute of two statements that both count rows
C6_Witness ==
  /\ ExecuteDone
  /\ exc = NoExc
  /\ Len(incoming) = 2
  /\ incoming[1].command_tuples = Some(1)
  /\ incoming[2].command_tuples = Some(2)
  /\ cur.rowcount = 1

StatusesOf(res) == {res[i].status : i \in DOMAIN res}

StoresNothing == cur.results = << >> /\ cur.pgresult = NoResult

\* C7: triage of the results of execute: all of TuplesOk/CommandOk/EmptyQuery
\* are accepted (results is the list, the current result the first, position
\* 0); else a last FatalError raises the server error, also with a COPY status
\* elsewhere; else a COPY status raises ProgrammingError; else, and for the
\* empty list, InternalError; when it raises the cursor stores no result.
C7_Triage ==
  ExecuteDone =>
     IF incoming = << >> THEN exc.type = "InternalError" /\ StoresNothing
     ELSE IF StatusesOf(incoming) \subseteq StatusOk
     THEN /\ exc = NoExc
          /\ cur.results = incoming
          /\ cur.pgresult = incoming[1]
          /\ cur.pos = 0
     ELSE IF incoming[Len(incoming)].status = "FATAL_ERROR"
     THEN exc.type = "ServerError" /\ StoresNothing
     ELSE IF StatusesOf(incoming) \cap StatusCopy # {}
     THEN exc.type = "ProgrammingError" /\ StoresNothing
     ELSE exc.type = "InternalError" /\ StoresNothing

\* C7 witness: a COPY status followed by a last FatalError raised the server
\* error
C7_Witness ==
  /\ ExecuteDone
  /\ Len(incoming) = 2
  /\ incoming[1].status = "COPY_IN"
  /\ incoming[2].status = "FATAL_ERROR"
  /\ exc.type = "ServerError"

(* --------------------------- claims on COPY ---------------------------- *)
\* the calls on the pgconn since the COPY statement was sent
CopyCalls == Tail(wire)

\* a is a contiguous part of b
IsInfix(a, b) == \E i \in 1..(Len(b) - Len(a) + 1) : SubSeq(b, i, i + Len(a) - 1) = a

\* the block of a COPY IN was entered once and left; rows went through
\* write_row only
CopyInLeft ==
  /\ pc = "idle"
  /\ lastop = "exit"
  /\ copy.state = "exited"
  /\ copy.nenter = 1
  /\ copy.pgresult.status = "COPY_IN"

\* the data calls a binary COPY IN of `rows` is to make
RECURSIVE PlainRows(_)
PlainRows(rows) ==
  IF rows = << >> THEN << >>
  ELSE <<Call("copy_to", 0, BinaryRow(Head(rows)), None)>> \o PlainRows(Tail(rows))

\* C8: a binary COPY IN of K >= 1 rows written with write_row, left normally,
\* puts on the wire one 19-byte prologue before the first row and nowhere
\* else, the K rows, and one FF FF trailer after the last row and before
\* copy_end; with no row written neither prologue nor trailer is sent.
C8_BinaryFraming ==
  (CopyInLeft /\ copy.format = "BINARY" /\ block.exc = NoExc /\ block.writes = 0) =>
     /\ Len(Prologue) = 19
     /\ CopyCalls =
          (IF block.rows = << >> THEN << >>
           ELSE <<Call("copy_to", 0, Prologue \o BinaryRow(block.rows[1]), None)>>
                \o PlainRows(Tail(block.rows))
                \o <<Call("copy_to", 0, <<255, 255>>, None)>>)
          \o <<Call("copy_end", 0, << >>, None)>>

\* C8 witness: two rows were written and the block left normally
C8_Witness ==
  /\ CopyInLeft
  /\ copy.format = "BINARY"
  /\ block.exc = NoExc
  /\ block.writes = 0
  /\ Len(block.rows) = 2
  /\ block.rows[1] # block.rows[2]

\* the calls a step adds to the wire log
Added == SubSeq(wire', Len(wire) + 1, Len(wire'))

\* C9: leaving the block of a COPY IN issues exactly one copy_end: after a
\* normal exit without an error, preceded by the trailer when the format is
\* binary and a row was written; after an error E with a message made from E
\* and without trailer. Leaving the block of a COPY OUT issues no call.
C9_ExitEndsCopy ==
  [][ (copy.state = "entered" /\ copy'.state = "exited") =>
        /\ SubSeq(wire', 1, Len(wire)) = wire
        /\ IF copy.pgresult.status = "COPY_OUT" THEN Added = << >>
           ELSE /\ Added # << >>
                /\ Cardinality({i \in DOMAIN Added : Added[i].call = "copy_end"}) = 1
                /\ Added[Len(Added)].call = "copy_end"
                /\ IF block.exc = NoExc
                   THEN /\ Added[Len(Added)].err = None
                        /\ IF copy.format = "BINARY" /\ block.rows # << >>
                           THEN /\ Len(Added) = 2
                                /\ Added[1] = Call("copy_to", 0, <<255, 255>>, None)
                           ELSE Len(Added) = 1
                   ELSE /\ Len(Added) = 1
                        /\ Added[1].err # None
                        /\ IsInfix(<<block.exc.type>>, Added[1].err[1])
                        /\ IsInfix(block.exc.msg, Added[1].err[1]) ]_vars

\* C9 witness: a binary COPY IN with a row written was left by an error
C9_Witness ==
  /\ CopyInLeft
  /\ copy.format = "BINARY"
  /\ block.rows # << >>
  /\ block.exc \in BlockErrors
  /\ wire[Len(wire)].call = "copy_end"

\* C10: when the block of a COPY IN raises E, TypeError of write(str) in
\* binary format included, the error leaving the block is QueryCanceled with a
\* message containing E, copy_end was issued with an error, and the
\* transaction status of the connection is INERROR.
C10_ErrorCancelsCopy ==
  (CopyInLeft /\ block.exc # NoExc) =>
     /\ exc.type = "QueryCanceled"
     /\ IsInfix(<<block.exc.type>>, exc.msg)
     /\ IsInfix(block.exc.msg, exc.msg)
     /\ wire[Len(wire)].call = "copy_end"
     /\ wire[Len(wire)].err # None
     /\ tstatus = "INERROR"

\* C10 witness: write(str) in a binary COPY IN raised TypeError
C10_Witness ==
  /\ CopyInLeft
  /\ copy.format = "BINARY"
  /\ block.exc.type = "TypeError"
  /\ exc.type = "QueryCanceled"

(* ---------------------- claims on the connection ----------------------- *)
\* caller t is between its send and the end of its collection of results
InCycle(t) == cpc[t] \in {"wait", "collect"}

\* C1: the send+wait+collect cycles of execute, executemany and the opening
\* of a COPY by concurrent callers are mutually exclusive: no caller sends
\* while the cycle of another caller is under way.
C1_CyclesExclusive ==
  \A t, u \in Callers : (t # u /\ InCycle(t)) => (~InCycle(u) /\ cpc[u] # "locked")

\* C1 witness: a caller is in its cycle while another one waits for the lock
C1_Witness ==
  \E t, u \in Callers : t # u /\ InCycle(t) /\ cop[t] = "executemany" /\ cpc[u] = "acquire"

\* C2: on one wire handle a generator runs to termination before another one
\* is started, the generators of Copy.read, Copy.write and Copy._finish
\* included: at most one generator is under way.
C2_OneGenerator == Cardinality({t \in Callers : gen[t] # "none"}) <= 1

\* C11: a COPY session is single-shot: entering it again after its block was
\* left raises TypeError, whatever the direction, whether it was drained, and
\* however the block was left.
C11_SingleShot ==
  (pc = "idle" /\ lastop = "enter") => (exc.type = "TypeError" /\ copy.state = "exited")

\* the chunks the server delivered after the first `before` ones, up to `upto`
ChunksBetween(before, upto) == [i \in 1..(upto - before) |-> <<before + i>>]

\* C12: in a COPY OUT read() returns the chunks in the order the server
\* delivers them; the first terminal result finishes the session and read()
\* returns empty bytes; every later read(), in the block or after it, returns
\* empty bytes and issues no call; iteration yields exactly the chunks that
\* precede the first empty one.
C12_ReadsInOrder ==
  [][ /\ lastop' = "read" =>
           IF copy.finished
           THEN ret' = << >> /\ exc' = NoExc /\ wire' = wire /\ copy' = copy
           ELSE /\ Added = <<Call("copy_from", 0, << >>, None)>>
                /\ IF chunks' # chunks
                   THEN /\ chunks' = chunks + 1
                        /\ ret' = <<chunks'>>
                        /\ exc' = NoExc
                        /\ ~copy'.finished
                   ELSE /\ ret' = << >>
                        /\ final'.status = "COMMAND_OK" => (exc' = NoExc /\ copy'.finished)
      /\ lastop' = "iter" =>
           IF copy.finished
           THEN ret' = << >> /\ exc' = NoExc /\ wire' = wire /\ copy' = copy
           ELSE /\ ret' = ChunksBetween(chunks, chunks')
                /\ Len(Added) = chunks' - chunks + 1
                /\ final'.status = "COMMAND_OK" => (exc' = NoExc /\ copy'.finished) ]_vars

\* C12 witness: a read after the block of a finished COPY OUT whose chunks
\* were all delivered
C12_Witness ==
  /\ pc = "idle"
  /\ lastop = "read"
  /\ copy.state = "exited"
  /\ copy.pgresult.status = "COPY_OUT"
  /\ copy.finished
  /\ chunks = MaxChunks
  /\ ret = << >>

\* the rowcount a terminal result gives
TerminalRowcount(result) ==
  IF result.command_tuples # None THEN result.command_tuples[1] ELSE -1

\* C13: when a COPY ends successfully rowcount is the command_tuples of the
\* terminal result, or -1 when unset; from the opening of the COPY until then
\* rowcount is -1, and it stays -1 when the COPY ends with an error, whatever
\* the previous operation left.
C13_CopyRowcount ==
  /\ pc = "copy" => cur.rowcount = -1
  /\ copy.state # "none" =>
       IF copy.finished
       THEN final.status = "COMMAND_OK" /\ cur.rowcount = TerminalRowcount(final)
       ELSE cur.rowcount = -1

\* C13 witness: the server refused the data at copy_end of a block that was
\* left normally
C13_Witness ==
  /\ CopyInLeft
  /\ block.exc = NoExc
  /\ block.rows # << >>
  /\ final.status = "FATAL_ERROR"
  /\ exc.type = "ServerError"
  /\ cur.rowcount = -1

\* copy() has returned or raised after the server's answer
CopyOpened == pc = "idle" /\ lastop = "copy" /\ exc.type # "InterfaceError"

\* C14: copy() returns a COPY session only for exactly one result of status
\* CopyIn or CopyOut, which is then the current result of the cursor and of
\* the transformer; one FatalError raises the server error, one result of
\* another status ProgrammingError, a list of another length InternalError;
\* when it raises no session is created; the lock is released in every case.
C14_CopyTriage ==
  CopyOpened =>
     /\ lock = 0
     /\ IF Len(incoming) # 1 THEN exc.type = "InternalError" /\ copy = NoCopy
        ELSE IF incoming[1].status \in {"COPY_IN", "COPY_OUT"}
        THEN /\ exc = NoExc
             /\ copy.state = "entered"
             /\ copy.pgresult = incoming[1]
             /\ cur.pgresult = incoming[1]
             /\ cur.tresult = incoming[1]
        ELSE IF incoming[1].status = "FATAL_ERROR"
        THEN exc.type = "ServerError" /\ copy = NoCopy
        ELSE exc.type = "ProgrammingError" /\ copy = NoCopy

\* C14 witness: the server answered a copy() with one CopyBoth result
C14_Witness ==
  /\ CopyOpened
  /\ Len(incoming) = 1
  /\ incoming[1].status = "COPY_BOTH"
  /\ exc.type = "ProgrammingError"
  /\ copy = NoCopy

(* ---------------------- claims on the whole cursor --------------------- *)
\* fetch operations, the iteration included
AllFetchOps == {"fetchone", "fetchmany", "fetchall", "iter"}

\* C15: closed is terminal: after close() closed stays true whatever is called
\* later, the results are dropped (no result, position 0, rowcount -1), every
\* later execute, executemany and copy raises InterfaceError and every later
\* fetch raises instead of returning rows.
C15_ClosedIsTerminal ==
  /\ [](cur.closed =>
          /\ cur.results = << >>
          /\ cur.pgresult = NoResult
          /\ cur.pos = 0
          /\ cur.rowcount = -1
          /\ (pc = "idle" /\ lastop \in {"execute", "executemany", "copy"})
                => exc.type = "InterfaceError"
          /\ (pc = "idle" /\ lastop \in AllFetchOps) => (exc # NoExc /\ ret \in {None, << >>}))
  /\ [][cur.closed => cur'.closed]_vars

\* the cursor has no result that rows can be fetched from
NoTuples(c) == c.pgresult = NoResult \/ c.pgresult.status # "TUPLES_OK"

\* C16: fetchone, fetchmany, fetchall and the iteration raise ProgrammingError
\* whenever the cursor has no current result or one whose status is not
\* TuplesOk, and then leave the position and every other field unchanged.
C16_FetchNeedsTuples ==
  [][ (lastop' \in AllFetchOps /\ NoTuples(cur)) =>
         (exc'.type = "ProgrammingError" /\ cur' = cur) ]_vars

\* the number of tuples of the current result, 0 when there is none
Ntuples(c) == IF c.pgresult = NoResult THEN 0 ELSE c.pgresult.ntuples

\* C17: after any sequence of execute, executemany, copy, nextset, fetchone,
\* fetchmany, fetchall and close the row position is between 0 and the number
\* of tuples of the current result (0 without a current result); it decreases
\* only where the current result changes (execute, executemany, copy, nextset
\* returning true, close), and then to 0.
C17_PositionInRange ==
  /\ [](cur.pos \in 0..Ntuples(cur))
  /\ [][ cur'.pos < cur.pos =>
           /\ cur'.pos = 0
           /\ \/ lastop' \in {"execute", "executemany", "copy", "close"}
              \/ lastop' = "nextset" /\ ret' = Some(TRUE) ]_vars

\* C17 witness: every row of the second result was fetched after nextset
C17_Witness ==
  /\ pc = "idle"
  /\ lastop = "fetchall"
  /\ cur.iresult = 1
  /\ cur.pgresult.ntuples = MaxRows
  /\ cur.pos = MaxRows
  /\ cur.results[1].ntuples = 1

\* C18: nextset() with a further result returns true, makes it the current
\* result of the cursor and of the transformer, resets the position to 0 and
\* sets rowcount to its command_tuples, or -1; without a further result it
\* returns nil and leaves current result, position and rowcount unchanged,
\* however often it is called; results are visited in the order collected,
\* none twice.
C18_Nextset ==
  [][ lastop' = "nextset" =>
        IF cur.iresult + 1 < Len(cur.results)
        THEN /\ ret' = Some(TRUE)
             /\ cur'.iresult = cur.iresult + 1
             /\ cur'.pgresult = cur.results[cur.iresult + 2]
             /\ cur'.tresult = cur.results[cur.iresult + 2]
             /\ cur'.pos = 0
             /\ cur'.rowcount = TerminalRowcount(cur.results[cur.iresult + 2])
             /\ cur'.results = cur.results
        ELSE /\ ret' = None
             /\ cur'.pgresult = cur.pgresult
             /\ cur'.tresult = cur.tresult
             /\ cur'.pos = cur.pos
             /\ cur'.rowcount = cur.rowcount
             /\ cur'.results = cur.results ]_vars

\* C18 witness: after rows were fetched nextset made a command without a
\* count the current result
C18_Witness ==
  /\ pc = "idle"
  /\ lastop = "nextset"
  /\ ret = Some(TRUE)
  /\ cur.iresult = 1
  /\ cur.results[1].status = "TUPLES_OK"
  /\ cur.pgresult.status = "COMMAND_OK"
  /\ cur.rowcount = -1
  /\ cur.pos = 0

(* ------------------------ claims on the waiters ------------------------ *)
\* C19: wait() and wait_async(), driven with the same generator and the same
\* readiness events, resume the generator with the same values and both
\* return the terminal value of the generator, also when it never yields.
C19_WaitersAgree ==
  /\ waiter.sent = waiter.sent_async
  /\ waiter.pc = "done" =>
       (waiter.rv = waiter.gen.rv /\ waiter.rv_async = waiter.gen.rv)

\* v is one readiness hint that the want asked for
HintFor(v, want) == v \in {ReadyR, ReadyW} /\ v \in EventsOf(want)

\* C20: every value a waiter sends into the generator is a single hint, Read
\* or Write, included in the want last yielded; after (fd, ReadWrite) with the
\* file descriptor readable and writable the generator is resumed once, with
\* Read or Write, never with the combined mask.
C20_SingleHint ==
  /\ Len(waiter.sent) = Len(waiter.sent_async)
  /\ \A i \in DOMAIN waiter.sent :
       /\ HintFor(waiter.sent[i], waiter.gen.wants[i])
       /\ HintFor(waiter.sent_async[i], waiter.gen.wants[i])

(* ------------------- claims on errors and cleanup ---------------------- *)
\* C21: once an aborted wait has let its error out to the caller, no
\* registration made by the waiter is outstanding: the blocking waiter has
\* unregistered the fd, the cooperative one has removed its callbacks
C21_AbortDeregisters ==
  waiter.pc = "aborted" => waiter.registered = {} /\ waiter.callbacks = {}

\* the operations that take the connection lock
LockOps == {"execute", "executemany", "copy"}

\* C22: whenever execute(), executemany() or the opening of a COPY is over,
\* by a return or by any exception, the connection lock is free; so it is
\* free while the block of a COPY runs, unless the block itself is inside
\* one of these operations
C22_LockReleased ==
  /\ pc \notin LockOps => lock = 0
  /\ copy.state = "entered" /\ lock # 0 => pc \in {"execute", "executemany"}

\* in the block of a COPY, an execute whose wait raised: the lock is free
C22_Witness ==
  /\ pc = "idle"
  /\ copy.state = "entered"
  /\ lastop = "execute"
  /\ exc \in WireErrors
  /\ lock = 0

\* the block of a COPY IN was left by an error and the copy_end of
\* __exit__ raised too
BothErrors ==
  /\ lastop = "exit"
  /\ copy.pgresult.status = "COPY_IN"
  /\ block.exc # NoExc
  /\ final.status # "COMMAND_OK"

\* C23, as stated: when both the block and the cleanup raise, the caller gets
\* the error of the block, with the cleanup error attached to it
C23_BodyErrorPrimary ==
  BothErrors => exc = block.exc /\ context = TerminalError(Some(ErrorMessage(block.exc)))

\* C23, amended: when both the block and the cleanup raise, the caller gets
\* the cleanup error (QueryCanceled, whose message carries the type and the
\* text of the block's error), with the block's error as its context; neither
\* is lost
C23_CleanupErrorPrimary ==
  BothErrors =>
    /\ exc = Exc("QueryCanceled", <<"COPY from stdin failed: ">> \o ErrorMessage(block.exc))
    /\ context = block.exc
    /\ exc # NoExc /\ context # NoExc

\* a COPY IN whose block wrote data and then raised
C23_Witness ==
  /\ BothErrors
  /\ block.exc \in BlockErrors
  /\ block.writes > 0

(* ------------------------- claims on the arrays ------------------------ *)
\* the oids of the scalars of a value, in traversal order
RECURSIVE OidsOf(_)
OidsOf(v) ==
  IF v.k = "scalar" THEN <<v.oid>>
  ELSE IF v.k = "nil" THEN << >>
  ELSE Flatten([i \in DOMAIN v.items |-> OidsOf(v.items[i])])

Mixed(v) == \E i, j \in DOMAIN OidsOf(v) : OidsOf(v)[i] # OidsOf(v)[j]

FirstOid(v) == IF OidsOf(v) = << >> THEN 0 ELSE OidsOf(v)[1]

\* the lengths of the lists along the leftmost spine of a value
RECURSIVE Spine(_)
Spine(v) ==
  IF v.k # "list" THEN << >>
  ELSE IF v.items = << >> THEN <<0>>
  ELSE <<Len(v.items)>> \o Spine(v.items[1])

\* v is a nested list of the shape dims, with scalars and nils at the bottom
RECURSIVE HasShape(_, _)
HasShape(v, dims) ==
  IF dims = << >> THEN v.k # "list"
  ELSE /\ v.k = "list"
       /\ Len(v.items) = Head(dims)
       /\ \A i \in DOMAIN v.items : HasShape(v.items[i], Tail(dims))

Rectangular(v) == HasShape(v, Spine(v))

\* rectangular, and no list in it is empty
RectangularNonEmpty(v) == Rectangular(v) /\ \A i \in DOMAIN Spine(v) : Spine(v)[i] > 0

\* C24: in both writers, a non-nil element whose oid differs from the oid of
\* the first non-nil element makes the write fail with DataError, at any
\* depth and across sub-lists; otherwise the array oid returned is the one of
\* the first non-nil element, nils counting for nothing
C24_OidUnification ==
  (codec.op = "text" \/ (codec.op = "binary" /\ RectangularNonEmpty(codec.obj))) =>
    IF Mixed(codec.obj) THEN codec.out.exc = DifferentTypes
    ELSE codec.out.exc = NoExc /\ codec.out.oid = _array_oid(FirstOid(codec.obj))

\* the binary writer refused two sub-lists whose elements differ in oid, the
\* first sub-list starting with a nil
C24_Witness ==
  /\ codec.op = "binary"
  /\ codec.obj = List(<<List(<<Nil, Scalar(TEXT_OID, <<97>>)>>),
                         List(<<Scalar(INT4_OID, <<49>>), Nil>>)>>)
  /\ codec.out.exc = DifferentTypes

\* C25: the binary writer refuses every list that is not rectangular, or
\* that holds an empty list below the top level, with DataError and without
\* producing bytes
C25_RaggedRejected ==
  (codec.op = "binary" /\ codec.obj.items # << >> /\ ~RectangularNonEmpty(codec.obj)) =>
    codec.out.exc.type = "DataError" /\ codec.out.bytes = << >>

\* C26: the text reader applied to what the text writer made of a rectangular
\* nested list of scalars and nils gives the list back: same shape, nils as
\* nils, every string byte for byte
C26_TextRoundTrip ==
  (codec.op = "text" /\ Rectangular(codec.obj) /\ ~Mixed(codec.obj)) =>
    /\ codec.out.exc = NoExc
    /\ codec.back = Cast(codec.obj, NoExc)

\* [['a', 'b'], ['"c"', None]] was written and read back
C26_Witness ==
  /\ codec.op = "text"
  /\ codec.obj = List(<<List(<<Scalar(TEXT_OID, <<97>>), Scalar(TEXT_OID, <<98>>)>>),
                         List(<<Scalar(TEXT_OID, <<DQUOTE, 99, DQUOTE>>), Nil>>)>>)
  /\ codec.back.rv = codec.obj

\* the scalars and nils of a value in row-major order
RECURSIVE Leaves(_)
Leaves(v) ==
  IF v.k # "list" THEN <<v>> ELSE Flatten([i \in DOMAIN v.items |-> Leaves(v.items[i])])

HasNil(v) == \E i \in DOMAIN Leaves(v) : Leaves(v)[i] = Nil

\* the binary layout of a rectangular list: head, dimensions, elements
Layout(v) ==
  Int4(Len(Spine(v))) \o Int4(IF HasNil(v) THEN 1 ELSE 0)
    \o Int4(IF FirstOid(v) = 0 THEN TEXT_OID ELSE FirstOid(v))
    \o Flatten([i \in DOMAIN Spine(v) |-> Int4(Spine(v)[i]) \o Int4(1)])
    \o Flatten([i \in DOMAIN Leaves(v) |->
                  IF Leaves(v)[i] = Nil THEN Int4(-1)
                  ELSE Int4(Len(Leaves(v)[i].bytes)) \o Leaves(v)[i].bytes])

\* C27: for a rectangular non-empty nested list the binary writer emits the
\* head (ndims, hasnull, element oid), a (length, 1) pair per dimension of the
\* leftmost spine and the elements in row-major order, -1 standing for nil,
\* hasnull being 1 iff there is a nil; the binary reader gives the list back
C27_BinaryRoundTrip ==
  (codec.op = "binary" /\ codec.obj.items # << >> /\ RectangularNonEmpty(codec.obj)
     /\ ~Mixed(codec.obj)) =>
    /\ codec.out.exc = NoExc
    /\ codec.out.bytes = Layout(codec.obj)
    /\ codec.back = Cast(codec.obj, NoExc)

\* a list of two dimensions with nils in it was written and read back
C27_Witness ==
  /\ codec.op = "binary"
  /\ Len(Spine(codec.obj)) = 2
  /\ HasNil(codec.obj) /\ FirstOid(codec.obj) = INT4_OID
  /\ RectangularNonEmpty(codec.obj)
  /\ codec.back.rv = codec.obj

\* the number of "{" not yet closed after each byte of a text without quotes
RECURSIVE Depths(_, _)
Depths(data, d) ==
  IF data = << >> THEN << >>
  ELSE LET d1 == IF Head(data) = LBRACE THEN d + 1
                 ELSE IF Head(data) = RBRACE THEN d - 1 ELSE d
       IN  <<d1>> \o Depths(Tail(data), d1)

UnmatchedClose(data) == \E i \in DOMAIN data : Depths(data, 0)[i] < 0
FieldOutside(data) ==
  \E i \in DOMAIN data : data[i] \notin {LBRACE, RBRACE, COMMA} /\ Depths(data, 0)[i] = 0
AllMatched(data) == ~UnmatchedClose(data) /\ (data # << >> => Depths(data, 0)[Len(data)] = 0)

\* C28: the text reader raises DataError, and returns nothing, for a "}"
\* without its "{" and for a field outside every "{"; for a text whose braces
\* all match it returns a list
C28_MalformedIsDataError ==
  codec.op = "cast" =>
    /\ (UnmatchedClose(codec.data) \/ FieldOutside(codec.data)) =>
          codec.back.exc.type = "DataError" /\ codec.back.rv = Nil
    /\ (AllMatched(codec.data) /\ ~FieldOutside(codec.data)) =>
          codec.back.exc = NoExc /\ codec.back.rv.k = "list"

(* ----------------------- claims on the COPY rows ----------------------- *)
\* the bytes the COPY text format escapes, and the letter of each
Escaped == (8 :> 98) @@ (9 :> 116) @@ (10 :> 110) @@ (11 :> 118) @@ (12 :> 102)
             @@ (13 :> 114) @@ (92 :> 92)

\* an encoded text cut into units: a backslash with the byte after it, or
\* one byte
RECURSIVE Units(_)
Units(data) ==
  IF data = << >> THEN << >>
  ELSE IF Head(data) = 92 /\ Len(data) >= 2
       THEN <<SubSeq(data, 1, 2)>> \o Units(SubSeq(data, 3, Len(data)))
  ELSE <<SubSeq(data, 1, 1)>> \o Units(Tail(data))

\* how many of the units are the bare byte b
Unescaped(units, b) == Cardinality({i \in DOMAIN units : units[i] = <<b>>})

\* the units cut at the bare tabs
RECURSIVE SplitTabs(_, _)
SplitTabs(units, acc) ==
  IF units = << >> THEN <<acc>>
  ELSE IF Head(units) = <<9>> THEN <<acc>> \o SplitTabs(Tail(units), << >>)
  ELSE SplitTabs(Tail(units), Append(acc, Head(units)))

\* the inverse of the escape on one unit
UnescapeUnit(u) ==
  IF Len(u) = 2 /\ \E b \in DOMAIN Escaped : Escaped[b] = u[2]
  THEN <<CHOOSE b \in DOMAIN Escaped : Escaped[b] = u[2]>>
  ELSE u

\* the field a list of units stands for
DecodeField(units) ==
  IF units = <<<<92, 78>>>> THEN Nil
  ELSE Scalar(0, Flatten([i \in DOMAIN units |-> UnescapeUnit(units[i])]))

\* the row an encoded line ending in a newline stands for
DecodeRow(data) ==
  LET fields == SplitTabs(Units(SubSeq(data, 1, Len(data) - 1)), << >>)
  IN  List([i \in DOMAIN fields |-> DecodeField(fields[i])])

\* the encoding of one field, as the format defines it
EncodedField(f) ==
  IF f = Nil THEN <<92, 78>>
  ELSE Flatten([i \in DOMAIN f.bytes |->
                 IF f.bytes[i] \in DOMAIN Escaped THEN <<92, Escaped[f.bytes[i]]>>
                 ELSE <<f.bytes[i]>>])

\* what C29 says of the row `row` encoded as `data`
RowEncodedRight(row, data) ==
  /\ data # << >> /\ data[Len(data)] = 10
  /\ Unescaped(Units(data), 10) = 1
  /\ Unescaped(Units(data), 9) = Len(row.items) - 1
  /\ data = JoinTab([i \in DOMAIN row.items |-> EncodedField(row.items[i])]) \o <<10>>
  /\ \A i \in DOMAIN row.items :
       row.items[i] # Nil => EncodedField(row.items[i]) # <<92, 78>>
  /\ DecodeRow(data) = row

\* C29, as stated: every row is encoded with one bare newline, at the end,
\* one bare tab less than it has fields, each of \b \t \n \v \f \r and the
\* backslash as a backslash and a letter, nil as backslash-N, which no other
\* field gives; decoding gives the row back
C29_TextRowReversible ==
  codec.op = "copyrow" => RowEncodedRight(codec.obj, codec.data)

\* C29, amended: the same for every row of at least one field
C29_TextRowReversibleNonEmpty ==
  (codec.op = "copyrow" /\ codec.obj.items # << >>) => RowEncodedRight(codec.obj, codec.data)

\* a row of a nil and of the two bytes backslash-N was encoded
C29_Witness ==
  /\ codec.op = "copyrow"
  /\ codec.obj = List(<<Nil, Scalar(0, <<92, 78>>)>>)
  /\ codec.data = <<92, 78, 9, 92, 92, 78, 10>>

\* write() refuses the buffer: a str in a binary COPY, or neither bytes nor str
WriteRefused(buffer) ==
  \/ buffer.type = "str" /\ copy.pgresult.binary_tuples = "BINARY"
  \/ buffer.type \notin {"bytes", "str"}

\* C30: a write() of a str to a binary COPY, or of what is neither bytes nor
\* str, raises TypeError, issues no call and leaves the first-row and
\* finished flags as they were; a str written to a text COPY is sent encoded
\* in the client encoding, bytes are sent as they are
C30_WriteCoercion ==
  [][\A buffer \in CopyBuffers :
       CopyWrite(buffer) =>
         IF WriteRefused(buffer)
         THEN /\ block'.exc.type = "TypeError"
              /\ wire' = wire
              /\ copy'.first_row = copy.first_row /\ copy'.finished = copy.finished
         ELSE /\ block'.exc = NoExc
              /\ wire' = Append(wire, Call("copy_to", 0,
                                           IF buffer.type = "str" THEN Encode(buffer.value)
                                           ELSE buffer.value, None))]_vars

\* a str was written to a binary COPY after a row: TypeError, and the row is
\* still the only data sent
C30_Witness ==
  /\ lastop = "write"
  /\ copy.format = "BINARY" /\ ~copy.first_row
  /\ block.exc = Exc("TypeError", <<"cannot copy str data in binary mode: use bytes instead">>)
  /\ Len(block.rows) = 1 /\ block.writes = 0

(* ------------------- claims on the waiters' progress ------------------- *)
\* C32: a timeout of the blocking waiter's select with nothing ready neither
\* resumes the generator nor ends the wait; when every file descriptor
\* waited on becomes ready in the end, both waiters return the value of the
\* generator
C32_WaiterProgress ==
  /\ [][waiter'.ticks > waiter.ticks =>
          /\ waiter'.pc = "waiting" /\ waiter'.pos = waiter.pos
          /\ waiter'.sent = waiter.sent /\ waiter'.sent_async = waiter.sent_async
          /\ waiter'.registered = waiter.registered]_vars
  /\ (waiter.pc = "waiting") ~>
       (waiter.pc = "done" /\ waiter.rv = waiter.gen.rv /\ waiter.rv_async = waiter.gen.rv)

\* a wait that met a timeout and then returned the value of a generator that
\* yielded as often as it can
C32_Witness ==
  /\ waiter.pc = "done" /\ waiter.ticks = MaxTicks
  /\ Len(waiter.sent) = MaxYields /\ waiter.rv = Some(1) /\ waiter.rv_async = Some(1)

\* C33: while a waiter is blocked the registrations for the file descriptor
\* are those of the want last yielded (the selector key of wait(), the
\* reader and the writer of wait_async()); none is left when the generator
\* is resumed or when the waiter has returned
C33_RegistrationDiscipline ==
  /\ waiter.pc = "waiting" =>
       /\ waiter.registered = EventsOf(waiter.gen.wants[waiter.pos])
       /\ waiter.callbacks = EventsOf(waiter.gen.wants[waiter.pos])
  /\ waiter.at_resume = {}
  /\ waiter.pc = "done" => waiter.registered = {} /\ waiter.callbacks = {}

\* a waiter blocked on (fd, ReadWrite) after the generator was resumed once
C33_Witness ==
  /\ waiter.pc = "waiting" /\ waiter.pos = 2
  /\ waiter.gen.wants[2] = WaitRW
  /\ waiter.callbacks = {EVENT_READ, EVENT_WRITE}

(* ------------------- claims on the cursor's results -------------------- *)
\* the rows of a result from position pos on, n of them
RowsFrom(pos, n) == [i \in 1..n |-> pos + i - 1]

C31_SendPath ==
  /\ []((pc = "execute" \/ ExecuteDone) =>
          /\ Len(wire) = 1
          /\ wire[1].call \in {"send_query_params", "send_query"})
  /\ [][\A params \in 0..1 :
          (ExecuteBegin(params) /\ pc' = "execute") =>
             LET pgq == PostgresQuery(params)
             IN  /\ cur'.query = pgq.query
                 /\ IF pgq.params # None \/ cur.format = "BINARY"
                    THEN /\ wire' = <<Send("send_query_params", params)>>
                         /\ cur'.params = pgq.params
                    ELSE /\ wire' = <<Send("send_query", 0)>>
                         /\ cur'.params = None]_vars
  /\ [][(StartCopyBegin /\ pc' = "copy") =>
          /\ wire' = <<Send("send_query_params", 0)>>
          /\ cur'.query = PostgresQuery(0).query
          /\ cur'.params = PostgresQuery(0).params]_vars

\* a cursor of binary format has sent a query without parameters
C31_Witness ==
  /\ pc = "execute" /\ cur.format = "BINARY"
  /\ wire = <<Send("send_query_params", 0)>>
  /\ cur.query # None /\ cur.params = None

\* C35: once execute() has returned or raised, the pgconn is not in the COPY
\* sub-protocol, also when the server answered the statement with CopyIn or
\* CopyOut and execute() raised ProgrammingError
C35_ExecuteLeavesNoCopy ==
  ExecuteDone => tstatus # "ACTIVE"

\* an operation passed the checks of _start_query and raised on its results
FailedOnResults ==
  /\ pc = "idle" /\ lastop \in LockOps
  /\ exc.type \in {"ServerError", "ProgrammingError", "InternalError"}

\* the results of the iterations of executemany that succeeded
Succeeded == SelectSeq(incoming, LAMBDA r : r.status \in StatusOk)

Refusing == cur.closed \/ connection.closed \/ connection.status # "OK"

\* the error of the first check that refuses: the cursor, then the
\* connection, then the status of the pgconn
Refusal ==
  IF cur.closed THEN Exc("InterfaceError", <<"the cursor is closed">>)
  ELSE IF connection.closed THEN Exc("InterfaceError", <<"the connection is closed">>)
  ELSE Exc("InterfaceError", <<"cannot execute operations: the connection is in status ",
                               connection.status>>)

\* C37: execute, executemany and copy called on a closed cursor, on a closed
\* connection or on a connection whose status is not OK (checked in this
\* order) raise InterfaceError with no call made on the pgconn and leave
\* every field of the cursor as it was
C37_RefusedLeavesCursor ==
  [][(/\ Refusing
      /\ \/ \E params \in 0..1 : ExecuteBegin(params)
         \/ \E n \in 1..MaxParams : ExecutemanyBegin(n)
         \/ StartCopyBegin) =>
        /\ exc' = Refusal
        /\ wire' = wire /\ cur' = cur
        /\ pc' = "idle" /\ lock' = lock /\ tstatus' = tstatus]_vars

\* a cursor at row 1 of the result of its last query, refused because the
\* connection was lost
C37_Witness ==
  /\ pc = "idle" /\ lastop = "executemany"
  /\ exc.type = "InterfaceError" /\ connection = [closed |-> FALSE, status |-> "BAD"]
  /\ ~cur.closed /\ cur.pos = 1 /\ Len(cur.results) = 1 /\ cur.query # None
  /\ wire = <<Send("send_query_params", 1)>>

====
